---- MODULE Spec2Model ----
(***************************************************************************)
(* Model of the gateway protocol client of uncord-client                   *)
(* (src/lib/gateway/gateway-client.ts): the GatewayClient class, the       *)
(* WebSocket objects it creates, its two timers and the token fetches it   *)
(* has pending.  The runtime is single threaded: every action below is one *)
(* callback (or one public method call) run to completion.                 *)
(***************************************************************************)
EXTENDS Integers, Sequences, FiniteSets, TLC

\* ------------------------------------------------------------------------
\* Bounds of the model
\* ------------------------------------------------------------------------
MaxFetches == 1
MaxAttempts == 2
MaxSeq == 1
MaxRetries == 6
MaxClosures == 2
MaxEffects == 3
MaxSlashes == 2
MaxCalls == 2
MaxClock == 6

\* ------------------------------------------------------------------------
\* Program constants
\* ------------------------------------------------------------------------
OP_DISPATCH == 0
OP_HEARTBEAT == 1
OP_IDENTIFY == 2
OP_PRESENCE_UPDATE == 3
OP_RESUME == 6
OP_RECONNECT == 7
OP_INVALID_SESSION == 9
OP_HELLO == 10
OP_HEARTBEAT_ACK == 11

CLOSE_INVALID_TOKEN == 4004
CLOSE_RATE_LIMITED == 4008
MAX_BACKOFF_MS == 30000
RATE_LIMIT_WAIT_MS == 60000

CLOSE_NORMAL == 1000
CLOSE_FORCE == 4000

\* null of a reference (socket, timer), of seq, of an optional delay
NULL == 0
NoSeq == 0 - 1
NoDelay == 0 - 1
NoSession == "null"
NoToken == "null"
Rejected == "rejected"

\* ------------------------------------------------------------------------
\* Inputs of the environment
\* ------------------------------------------------------------------------
SockIds == 1 .. (MaxFetches + 2)
TimerIds == 1 .. 2
Callbacks == {"onopen", "onmessage", "onclose", "onerror"}
Intervals == {1000, 5000}
SessionIds == {"sess-1"}
Seqs == 0 .. MaxSeq
\* 1006 is the code of a transport that failed without a close frame
CloseCodes == {CLOSE_NORMAL, 1006, CLOSE_FORCE, CLOSE_INVALID_TOKEN, CLOSE_RATE_LIMITED}
Tokens == {"tok"}
\* Math.random() in thousandths: 0 <= r < 1000
Rands == {0, 999}

\* Event keys the client emits under, the keys handlers are subscribed to,
\* and the handlers: "handler" returns, "thrower" throws.
ListenerKeys == {"open", "close", "READY", "MESSAGE_CREATE"}
SubscribedKeys == {"open", "close", "READY"}
Handlers == {"handler", "thrower"}
Throwers == {"thrower"}
\* a handler of "close" that calls connect() on the client
Reconnectors == {"reconnector"}
SetIds == 1 .. MaxClosures
\* the functions on() can return: each holds its set, event and handler
Closures == [set : SetIds, event : SubscribedKeys, handler : Handlers]
\* runs of the GatewayProvider effect; the client of a run that has not run yet
EffectIds == 1 .. MaxEffects
NoGateway ==
    [effect |-> "idle", connectTimer |-> FALSE, disposed |-> FALSE, ws |-> FALSE,
     reconnectTimer |-> FALSE, fired |-> FALSE, opened |-> FALSE]
\* Base addresses, as sequences of characters: a scheme (or what stands in
\* its place), the rest of the address, and up to MaxSlashes trailing slashes
UrlSchemes ==
    {<<>>, <<"h", "t", "t", "p">>, <<"h", "t", "t", "p", "s">>, <<"w", "s">>,
     <<"h", "t", "t">>, <<"x", "h", "t", "t", "p">>, <<"H", "T", "T", "P">>}
UrlRests ==
    {<<>>, <<":", "/", "/", "a">>, <<":", "/", "/", "a", "/", "b">>,
     <<":", "/", "/", "a", "/", "h", "t", "t", "p">>}
Slashes(n) == [i \in 1 .. n |-> "/"]
BaseUrls == {a \o b \o Slashes(n) : a \in UrlSchemes, b \in UrlRests, n \in 0 .. MaxSlashes}
\* the address the lifecycle is explored with: http://a
DefaultBaseUrl == <<"h", "t", "t", "p", ":", "/", "/", "a">>
\* the fixed gateway path, one token
GatewayPath == <<"/api/v1/gateway">>
\* Calls of fetchWithRefresh.  pc is the await doFetchWithRefresh is suspended
\* at, timer the timeout of withTimeout, outer the promise fetchWithRefresh
\* returned and result its value; fetcherCalls, refreshCalls, first (what the
\* first fetcher call returned) and tokens (what getAccessToken returned,
\* in order) are history.
CallIds == 1 .. MaxCalls
NoCall ==
    [pc |-> "idle", timer |-> FALSE, outer |-> "pending", result |-> "none",
     fetcherCalls |-> 0, refreshCalls |-> 0, first |-> "none", tokens |-> <<>>]
\* what the awaited promises resolve to
TokenValues == {"tok", "null"}
FetcherValues == {"ok", "TOKEN_EXPIRED", "FORBIDDEN"}
Awaited(pc) ==
    IF pc \in {"getAccessToken", "getAccessToken2"} THEN TokenValues
    ELSE IF pc \in {"fetcher", "retry"} THEN FetcherValues
    ELSE IF pc = "refreshSession" THEN {"void"}
    ELSE {}
\* The token accessor getToken of a run of the GatewayProvider effect, with
\* the close listener that arms it.  now is Date.now(), in milliseconds, and
\* advances in steps of ClockStep; tokenRejectedAt is the variable of that
\* name; pc is the await a call of getToken is suspended at, result what the
\* last call returned.  History: closedAt (Date.now() at the last close with
\* code 4004, 0 if none), since (calls of getToken begun since that close),
\* firstAt and firstForced (when the first of them began, and whether it
\* called refreshSession before getAccessToken), forced (refreshes forced
\* since that close).
TOKEN_REJECTED_TTL_MS == 30000
ClockStep == 10000
Epoch == ClockStep
NoAuth ==
    [now |-> Epoch, tokenRejectedAt |-> 0, pc |-> "idle", result |-> "none",
     closedAt |-> 0, since |-> 0, firstAt |-> 0, firstForced |-> FALSE, forced |-> 0]
AuthAwaited(pc) ==
    IF pc \in {"forced getAccessToken", "getAccessToken", "getAccessToken2"}
    THEN {"tok", "null"}
    ELSE IF pc \in {"forced refreshSession", "refreshSession"} THEN {"void"}
    ELSE {}
\* One mounted useTypingUsers hook.  now is Date.now(), in milliseconds, and
\* advances in steps of TypingClockStep; channelId is the argument of the
\* latest render, channelIdRef the ref the render copies it to; reset says
\* that the [channelId] effect of the latest render is still to run; map is
\* typingMapRef.current (user -> expiry timestamp, NoExpiry: no entry);
\* typingUsers is the state the hook returns, as the set of its elements.
\* History: open holds the users for whom a TYPING_START for the viewed
\* channel from a user other than the current one was emitted and none of
\* the four ending events came since; started[u] is Date.now() at the
\* latest such TYPING_START (0: none).
TYPING_EXPIRY_MS == 12000
CLEANUP_INTERVAL_MS == 1000
TypingClockStep == 4 * CLEANUP_INTERVAL_MS
Channels == {"a", "b"}
NoChannel == "null"
UserIds == {"me", "u1", "u2"}
CurrentUserId == "me"
NoExpiry == 0
\* payloads of TYPING_START, TYPING_STOP and MESSAGE_CREATE: object says
\* that the payload is an object whose channel_id and user id are strings,
\* timestamp that it has a timestamp field
TypingPayloads ==
    [object : BOOLEAN, timestamp : BOOLEAN, channel_id : Channels, user_id : UserIds]
Mounted ==
    [now |-> TypingClockStep, channelId |-> "a", channelIdRef |-> "a", reset |-> FALSE,
     map |-> [u \in UserIds |-> NoExpiry], typingUsers |-> {},
     open |-> {}, started |-> [u \in UserIds |-> 0]]
\* Math.random() in thousandths, for the reconnect delays
Jitters == {0, 1, 499, 500, 501, 999}

\* Raw transport messages.  kind "garbage" is text JSON.parse rejects,
\* "value" is JSON that is no object with a numeric op, "frame" is a Frame.
\* d is the payload as far as the client reads it, n the heartbeat_interval
\* of a Hello payload (NoInterval: the field is missing or no number).
NoInterval == 0 - 1
Frame(op, d, n, s, t) == [kind |-> "frame", op |-> op, d |-> d, n |-> n, s |-> s, t |-> t]
NoFrame == Frame(0 - 1, "none", NoInterval, NoSeq, "null")

\* payloads d of a dispatch frame: no object, an object without session_id,
\* an object with a session id
DispatchPayloads == {"nonobject", "object"} \cup SessionIds
EventTypes == {"null", "READY", "MESSAGE_CREATE"}

RawMessages ==
    {[NoFrame EXCEPT !.kind = "garbage"], [NoFrame EXCEPT !.kind = "value"]}
    \cup {Frame(OP_HELLO, "object", i, NoSeq, "null") : i \in Intervals \cup {NoInterval}}
    \cup {Frame(OP_DISPATCH, d, NoInterval, s, "READY") :
            d \in DispatchPayloads, s \in Seqs \cup {NoSeq}}
    \cup {Frame(OP_DISPATCH, "object", NoInterval, s, t) :
            s \in Seqs \cup {NoSeq}, t \in EventTypes}
    \cup {Frame(OP_HEARTBEAT_ACK, "none", NoInterval, NoSeq, "null")}
    \cup {Frame(OP_RECONNECT, "none", NoInterval, NoSeq, "null")}
    \cup {Frame(OP_INVALID_SESSION, b, NoInterval, NoSeq, "null") : b \in {"true", "false"}}
    \cup {Frame(OP_HEARTBEAT, "none", NoInterval, NoSeq, "null")}

\* ------------------------------------------------------------------------
\* State
\* ------------------------------------------------------------------------
VARIABLES
    ws,                   \* this.ws: a socket id or NULL
    heartbeatTimer,       \* this.heartbeatTimer: an interval timer id or NULL
    heartbeatAckReceived, \* this.heartbeatAckReceived
    reconnectTimer,       \* this.reconnectTimer: a timeout id or NULL
    reconnectAttempts,    \* this.reconnectAttempts
    sessionId,            \* this.sessionId
    seq,                  \* this.seq
    intentionalClose,     \* this.intentionalClose
    disposed,             \* this.disposed
    sockets,              \* the WebSocket objects: readyState and callbacks
    hbLive,               \* the setInterval timers that run: id -> interval (0: none)
    rcLive,               \* the setTimeout timers that are pending: id -> BOOLEAN
    fetches,              \* handleHello calls suspended at await getToken()
    listeners,            \* this.listeners: event key -> its Set (an id) or NULL
    sets,                 \* the Set objects on() made: id -> handlers in insertion order
    unsubs,               \* the unsubscribe functions on() has returned
    baseUrl,              \* this.baseUrl: a sequence of characters
    activeClient,         \* gateway-context.tsx: the module-level activeClient (an
                          \* effect run, standing for the client it made, or NULL)
    gws,                  \* the runs of the GatewayProvider effect and the client gw
                          \* each of them made
    calls,                \* fetch-with-refresh.ts: the calls of fetchWithRefresh
    auth,                 \* gateway-context.tsx: the token accessor of one effect run
    typing,               \* use-typing-users.ts: one mounted useTypingUsers hook
    out,                  \* what the last callback did: sockets made, frames sent,
                          \* close calls, emissions, timers set
    cancelled,            \* history: the pending timeouts the last callback cancelled
    stopped,              \* history: the running intervals the last callback cleared
    subscribed,           \* history: the <<key, handler>> pairs given to on() for which
                          \* no function returned by on() was called since
    ev,                   \* history: the callback or method that ran last
    awaitingAck,          \* history: the running monitor sent a heartbeat and no
                          \* Heartbeat-ACK was received since
    zombieCloses          \* history: close(4000) calls the running monitor made on the
                          \* current socket whose close event is still to come (0 .. 2)

vars == <<ws, heartbeatTimer, heartbeatAckReceived, reconnectTimer, reconnectAttempts,
          sessionId, seq, intentionalClose, disposed, sockets, hbLive, rcLive,
          fetches, listeners, sets, unsubs, baseUrl, activeClient, gws, calls,
          auth, typing, out, cancelled, stopped, subscribed, ev, awaitingAck,
          zombieCloses>>

Cur ==
    [ws |-> ws, heartbeatTimer |-> heartbeatTimer,
     heartbeatAckReceived |-> heartbeatAckReceived,
     reconnectTimer |-> reconnectTimer, reconnectAttempts |-> reconnectAttempts,
     sessionId |-> sessionId, seq |-> seq, intentionalClose |-> intentionalClose,
     disposed |-> disposed, sockets |-> sockets, hbLive |-> hbLive, rcLive |-> rcLive,
     fetches |-> fetches, listeners |-> listeners, sets |-> sets, unsubs |-> unsubs,
     baseUrl |-> baseUrl, out |-> <<>>, cancelled |-> {},
     stopped |-> {}]

Commit(st) ==
    /\ ws' = st.ws
    /\ heartbeatTimer' = st.heartbeatTimer
    /\ heartbeatAckReceived' = st.heartbeatAckReceived
    /\ reconnectTimer' = st.reconnectTimer
    /\ reconnectAttempts' = st.reconnectAttempts
    /\ sessionId' = st.sessionId
    /\ seq' = st.seq
    /\ intentionalClose' = st.intentionalClose
    /\ disposed' = st.disposed
    /\ sockets' = st.sockets
    /\ hbLive' = st.hbLive
    /\ rcLive' = st.rcLive
    /\ fetches' = st.fetches
    /\ listeners' = st.listeners
    /\ sets' = st.sets
    /\ unsubs' = st.unsubs
    /\ out' = st.out
    /\ cancelled' = st.cancelled
    /\ stopped' = st.stopped

\* One thing a callback did: e names it ("new", "send", "close", "emit",
\* "call", "uncaught", "getToken", "setTimeout", "setInterval"), s is the
\* socket, n a number (opcode, close code, delay), k and d are strings (event
\* key or session id, payload or token), q a sequence number.  A "call" is
\* one invocation of handler h; its q and sid are this.seq and this.sessionId
\* as the handler finds them.  "uncaught" is an exception that leaves h.
NoEffect ==
    [e |-> "", s |-> NULL, n |-> 0 - 1, k |-> "", d |-> "", q |-> NoSeq,
     h |-> "", sid |-> ""]
Did(st, effect) == [st EXCEPT !.out = Append(@, effect)]

Has(o, e) == \E i \in 1 .. Len(o) : o[i].e = e
HasN(o, e, n) == \E i \in 1 .. Len(o) : o[i].e = e /\ o[i].n = n
Count(o, e) == Cardinality({i \in 1 .. Len(o) : o[i].e = e})

\* an exception is on its way out of the running callback
Thrown(st) == Has(st.out, "uncaught")

FreeSocket == [readyState |-> "FREE", cb |-> {}, url |-> <<>>]

\* ------------------------------------------------------------------------
\* The WebSocket and timer primitives of the runtime
\* ------------------------------------------------------------------------
\* ws.close(code): starts the closing handshake of a socket that is
\* connecting or open, and does nothing to one that is closing or closed.
WsClose(st, s, code) ==
    LET a == Did(st, [NoEffect EXCEPT !.e = "close", !.s = s, !.n = code])
    IN  IF a.sockets[s].readyState \in {"CONNECTING", "OPEN"}
        THEN [a EXCEPT !.sockets[s].readyState = "CLOSING"]
        ELSE a

\* A socket nothing refers to any more: not this.ws, no callback attached
\* and no suspended handleHello that was started by one of its messages.
Unreachable(st, s) ==
    /\ st.sockets[s].readyState # "FREE"
    /\ st.ws # s
    /\ st.sockets[s].cb = {}
    /\ \A i \in 1 .. Len(st.fetches) : st.fetches[i].sock # s

Release(st) ==
    [st EXCEPT !.sockets = [s \in SockIds |->
        IF Unreachable(st, s) THEN FreeSocket ELSE st.sockets[s]]]

\* the ids new WebSocket() can take: an id names an object for as long as
\* something refers to it, and is used again afterwards
FreeSockets(st) == {s \in SockIds : Release(st).sockets[s].readyState = "FREE"}
HasFreeSocket(st) == FreeSockets(st) # {}
HasFreeInterval(st) == \E i \in TimerIds : st.hbLive[i] = 0
HasFreeTimeout(st) == \E i \in TimerIds : ~st.rcLive[i]

\* ------------------------------------------------------------------------
\* GatewayClient
\* ------------------------------------------------------------------------
stopHeartbeat(st) ==
    IF st.heartbeatTimer # NULL
    THEN [st EXCEPT !.hbLive[st.heartbeatTimer] = 0, !.heartbeatTimer = NULL,
                   !.stopped = IF st.hbLive[st.heartbeatTimer] # 0
                               THEN @ \cup {st.heartbeatTimer} ELSE @]
    ELSE st

\* clearReconnectTimer that forgets the timer without clearing it
clearReconnectTimer_ForgetsOnly(st) ==
    IF st.reconnectTimer # NULL
    THEN [st EXCEPT !.rcLive[st.reconnectTimer] = @, !.reconnectTimer = NULL,
                   !.cancelled = IF st.rcLive[st.reconnectTimer]
                                 THEN @ \cup {st.reconnectTimer} ELSE @]
    ELSE st

clearReconnectTimer(st) ==
    IF st.reconnectTimer # NULL
    THEN [st EXCEPT !.rcLive[st.reconnectTimer] = FALSE, !.reconnectTimer = NULL,
                   !.cancelled = IF st.rcLive[st.reconnectTimer]
                                 THEN @ \cup {st.reconnectTimer} ELSE @]
    ELSE st

cleanup(st) ==
    LET a == stopHeartbeat(st)
    IN  IF a.ws # NULL THEN [a EXCEPT !.sockets[a.ws].cb = {}] ELSE a

\* send that does not look at readyState
send_IgnoresReadyState(st, frame) ==
    IF st.ws # NULL /\ TRUE
    THEN Did(st, [frame EXCEPT !.e = "send", !.s = st.ws])
    ELSE st

send(st, frame) ==
    IF st.ws # NULL /\ st.sockets[st.ws].readyState = "OPEN"
    THEN Did(st, [frame EXCEPT !.e = "send", !.s = st.ws])
    ELSE st

\* the Set ids no listeners entry and no unsubscribe function refers to
FreeSets(st) ==
    {i \in SetIds : /\ \A k \in ListenerKeys : st.listeners[k] # i
                    /\ \A c \in st.unsubs : c.set # i}

Without(hs, h) == SelectSeq(hs, LAMBDA x : x # h)
Elements(hs) == {hs[i] : i \in 1 .. Len(hs)}

\* on(event, handler); the function it returns holds set, handler and event
on(st, event, handler) ==
    LET a == IF st.listeners[event] = NULL
             THEN LET id == CHOOSE i \in FreeSets(st) : TRUE
                  IN  [st EXCEPT !.sets[id] = <<>>, !.listeners[event] = id]
             ELSE st
        set == a.listeners[event]
        b == IF handler \in Elements(a.sets[set]) THEN a
             ELSE [a EXCEPT !.sets[set] = Append(@, handler)]
    IN  [b EXCEPT !.unsubs = @ \cup {[set |-> set, event |-> event, handler |-> handler]}]

\* the function on() returned
unsubscribe(st, c) ==
    LET a == [st EXCEPT !.sets[c.set] = Without(@, c.handler)]
    IN  IF Len(a.sets[c.set]) = 0 THEN [a EXCEPT !.listeners[c.event] = NULL] ELSE a

\* baseUrl.replace(/\/+$/, ""): the text without the slashes it ends in
RECURSIVE StripTrailingSlashes(_)
StripTrailingSlashes(u) ==
    IF Len(u) > 0 /\ u[Len(u)] = "/"
    THEN StripTrailingSlashes(SubSeq(u, 1, Len(u) - 1))
    ELSE u

\* url.replace(/^http/, "ws")
ReplaceLeadingHttp(u) ==
    IF Len(u) >= 4 /\ SubSeq(u, 1, 4) = <<"h", "t", "t", "p">>
    THEN <<"w", "s">> \o SubSeq(u, 5, Len(u))
    ELSE u

\* deriveWsUrl that removes one trailing slash only
deriveWsUrl_StripsOneSlash(b) ==
    LET url == IF Len(b) > 0 /\ b[Len(b)] = "/" THEN SubSeq(b, 1, Len(b) - 1) ELSE b
        wsUrl == ReplaceLeadingHttp(url)
    IN  wsUrl \o GatewayPath

deriveWsUrl(b) ==
    LET url == StripTrailingSlashes(b)
        wsUrl == ReplaceLeadingHttp(url)
    IN  wsUrl \o GatewayPath

\* Math.round(base + (Math.random() - 0.5) * base), Math.random() = r / 1000
Backoff(base, r) == (1000 * base + (r - 500) * base + 500) \div 1000

\* the base delay without its ceiling
DefaultBase_Uncapped(attempts) ==
    IF TRUE THEN 1000 * 2 ^ attempts ELSE MAX_BACKOFF_MS

DefaultBase(attempts) ==
    IF 1000 * 2 ^ attempts < MAX_BACKOFF_MS THEN 1000 * 2 ^ attempts ELSE MAX_BACKOFF_MS

scheduleReconnect(st, delayMs, r) ==
    IF st.disposed THEN st
    ELSE LET a == clearReconnectTimer(st)
             base == IF delayMs # NoDelay THEN delayMs ELSE DefaultBase(a.reconnectAttempts)
             backoff == Backoff(base, r)
             id == CHOOSE i \in TimerIds : ~a.rcLive[i]
             b == [a EXCEPT !.reconnectAttempts = @ + 1,
                            !.rcLive[id] = TRUE,
                            !.reconnectTimer = id]
         IN  Did(b, [NoEffect EXCEPT !.e = "setTimeout", !.n = backoff])

\* startHeartbeat that leaves the previous timer running
startHeartbeat_KeepsPrevious(st, intervalMs) ==
    LET a == [st EXCEPT !.heartbeatAckReceived = TRUE]
        id == CHOOSE i \in TimerIds : a.hbLive[i] = 0
    IN  Did([a EXCEPT !.hbLive[id] = intervalMs, !.heartbeatTimer = id],
            [NoEffect EXCEPT !.e = "setInterval", !.n = intervalMs])

startHeartbeat(st, intervalMs) ==
    LET a == [stopHeartbeat(st) EXCEPT !.heartbeatAckReceived = TRUE]
        id == CHOOSE i \in TimerIds : a.hbLive[i] = 0
    IN  Did([a EXCEPT !.hbLive[id] = intervalMs, !.heartbeatTimer = id],
            [NoEffect EXCEPT !.e = "setInterval", !.n = intervalMs])

\* a tick that sends its heartbeat whatever the liveness flag says
heartbeatTick_NeverCloses(st) ==
    IF FALSE
    THEN IF st.ws # NULL THEN WsClose(st, st.ws, CLOSE_FORCE) ELSE st
    ELSE send([st EXCEPT !.heartbeatAckReceived = FALSE],
              [NoEffect EXCEPT !.n = OP_HEARTBEAT])

\* The callback startHeartbeat hands to setInterval.
heartbeatTick(st) ==
    IF ~st.heartbeatAckReceived
    THEN IF st.ws # NULL THEN WsClose(st, st.ws, CLOSE_FORCE) ELSE st
    ELSE send([st EXCEPT !.heartbeatAckReceived = FALSE],
              [NoEffect EXCEPT !.n = OP_HEARTBEAT])

\* connect() without its disposed check
connect_IgnoresDisposed(st) ==
    IF FALSE THEN st
    ELSE LET a == clearReconnectTimer([st EXCEPT !.intentionalClose = FALSE])
             b == IF a.ws # NULL
                  THEN [WsClose(cleanup(a), a.ws, CLOSE_NORMAL) EXCEPT !.ws = NULL]
                  ELSE a
             c == Release(b)
             id == CHOOSE s \in FreeSockets(b) : TRUE
         IN  Did([c EXCEPT !.sockets[id] = [readyState |-> "CONNECTING", cb |-> Callbacks,
                                               url |-> deriveWsUrl(c.baseUrl)],
                           !.ws = id],
                 [NoEffect EXCEPT !.e = "new", !.s = id])

\* connect() that overwrites this.ws without tearing the old socket down
connect_KeepsOldSocket(st) ==
    IF st.disposed THEN st
    ELSE LET a == clearReconnectTimer([st EXCEPT !.intentionalClose = FALSE])
             b == a
             c == Release(b)
             id == CHOOSE s \in FreeSockets(b) : TRUE
         IN  Did([c EXCEPT !.sockets[id] = [readyState |-> "CONNECTING", cb |-> Callbacks,
                                               url |-> deriveWsUrl(c.baseUrl)],
                           !.ws = id],
                 [NoEffect EXCEPT !.e = "new", !.s = id])

connect(st) ==
    IF st.disposed THEN st
    ELSE LET a == clearReconnectTimer([st EXCEPT !.intentionalClose = FALSE])
             b == IF a.ws # NULL
                  THEN [WsClose(cleanup(a), a.ws, CLOSE_NORMAL) EXCEPT !.ws = NULL]
                  ELSE a
             c == Release(b)
             id == CHOOSE s \in FreeSockets(b) : TRUE
         IN  Did([c EXCEPT !.sockets[id] = [readyState |-> "CONNECTING", cb |-> Callbacks,
                                               url |-> deriveWsUrl(c.baseUrl)],
                           !.ws = id],
                 [NoEffect EXCEPT !.e = "new", !.s = id])

\* The data handed to handlers: a dispatch payload, or {code, reason} of a close
Payload(d) == [d |-> d, n |-> 0 - 1]
ClosePayload(code) == [d |-> "", n |-> code]

\* handler(data): the handler runs; it throws if it is one that throws and
\* calls connect() if it is one that reconnects
invoke(st, h, event, data) ==
    LET a == Did(st, [NoEffect EXCEPT !.e = "call", !.h = h, !.k = event,
                                      !.d = data.d, !.n = data.n,
                                      !.q = st.seq, !.sid = st.sessionId])
    IN  IF h \in Throwers THEN Did(a, [NoEffect EXCEPT !.e = "uncaught", !.h = h])
        ELSE IF h \in Reconnectors THEN connect(a)
        ELSE a

\* for (const handler of set) handler(data): in insertion order, left by
\* the first exception
RECURSIVE Deliver(_, _, _, _)
Deliver(st, hs, event, data) ==
    IF hs = <<>> THEN st
    ELSE LET a == invoke(st, Head(hs), event, data)
         IN  IF Thrown(a) THEN a ELSE Deliver(a, Tail(hs), event, data)

emit(st, event, data) ==
    LET a == Did(st, [NoEffect EXCEPT !.e = "emit", !.k = event, !.d = data.d, !.n = data.n])
        set == a.listeners[event]
    IN  IF set = NULL THEN a ELSE Deliver(a, a.sets[set], event, data)

disconnect(st) ==
    LET a == cleanup(clearReconnectTimer(
                 [st EXCEPT !.disposed = TRUE, !.intentionalClose = TRUE]))
    IN  IF a.ws # NULL
        THEN [WsClose(a, a.ws, CLOSE_NORMAL) EXCEPT !.ws = NULL]
        ELSE a

sendPresenceUpdate(st, status) ==
    send(st, [NoEffect EXCEPT !.n = OP_PRESENCE_UPDATE, !.d = status])

\* onopen that leaves the counter as it is
onopen_KeepsAttempts(st) == [st EXCEPT !.reconnectAttempts = @]

\* ws.onopen of the socket connect() made
onopen(st) == [st EXCEPT !.reconnectAttempts = 0]

\* onclose that leaves the heartbeat timer and the callbacks in place
onclose_KeepsHeartbeat(st, s, code, r) ==
    LET a == st
    IN  IF a.disposed \/ s # a.ws THEN a
        ELSE LET c == emit(a, "close", ClosePayload(code))
             IN  IF Thrown(c) THEN c
                 ELSE IF c.intentionalClose THEN c
                 ELSE IF code = CLOSE_INVALID_TOKEN
                      THEN scheduleReconnect(
                               [c EXCEPT !.sessionId = NoSession, !.seq = NoSeq], NoDelay, r)
                      ELSE IF code = CLOSE_RATE_LIMITED
                           THEN scheduleReconnect(c, RATE_LIMIT_WAIT_MS, r)
                           ELSE scheduleReconnect(c, NoDelay, r)

\* onclose that schedules nothing after close code 4000
onclose_ForceCloseNotRetried(st, s, code, r) ==
    LET a == cleanup(st)
    IN  IF a.disposed \/ s # a.ws THEN a
        ELSE LET c == emit(a, "close", ClosePayload(code))
             IN  IF Thrown(c) THEN c
                 ELSE IF c.intentionalClose \/ code = CLOSE_FORCE THEN c
                 ELSE IF code = CLOSE_INVALID_TOKEN
                      THEN scheduleReconnect(
                               [c EXCEPT !.sessionId = NoSession, !.seq = NoSeq], NoDelay, r)
                      ELSE IF code = CLOSE_RATE_LIMITED
                           THEN scheduleReconnect(c, RATE_LIMIT_WAIT_MS, r)
                           ELSE scheduleReconnect(c, NoDelay, r)

\* onclose that keeps the session after close code 4004
onclose_InvalidTokenKeepsSession(st, s, code, r) ==
    LET a == cleanup(st)
    IN  IF a.disposed \/ s # a.ws THEN a
        ELSE LET c == emit(a, "close", ClosePayload(code))
             IN  IF Thrown(c) THEN c
                 ELSE IF c.intentionalClose THEN c
                 ELSE IF code = CLOSE_INVALID_TOKEN
                      THEN scheduleReconnect(
                               [c EXCEPT !.sessionId = @, !.seq = @], NoDelay, r)
                      ELSE IF code = CLOSE_RATE_LIMITED
                           THEN scheduleReconnect(c, RATE_LIMIT_WAIT_MS, r)
                           ELSE scheduleReconnect(c, NoDelay, r)

\* onclose that clears the session after every unexpected close
onclose_EveryCloseClearsSession(st, s, code, r) ==
    LET a == cleanup(st)
    IN  IF a.disposed \/ s # a.ws THEN a
        ELSE LET c == emit(a, "close", ClosePayload(code))
             IN  IF Thrown(c) THEN c
                 ELSE IF c.intentionalClose THEN c
                 ELSE IF code = CLOSE_INVALID_TOKEN
                      THEN scheduleReconnect(
                               [c EXCEPT !.sessionId = NoSession, !.seq = NoSeq], NoDelay, r)
                      ELSE IF code = CLOSE_RATE_LIMITED
                           THEN scheduleReconnect(c, RATE_LIMIT_WAIT_MS, r)
                           ELSE scheduleReconnect(
                               [c EXCEPT !.sessionId = NoSession, !.seq = NoSeq], NoDelay, r)

\* ws.onclose of socket s: the closure's ws is s
onclose(st, s, code, r) ==
    LET a == cleanup(st)
    IN  IF a.disposed \/ s # a.ws THEN a
        ELSE LET c == emit(a, "close", ClosePayload(code))
             IN  IF Thrown(c) THEN c
                 ELSE IF c.intentionalClose THEN c
                 ELSE IF code = CLOSE_INVALID_TOKEN
                      THEN scheduleReconnect(
                               [c EXCEPT !.sessionId = NoSession, !.seq = NoSeq], NoDelay, r)
                      ELSE IF code = CLOSE_RATE_LIMITED
                           THEN scheduleReconnect(c, RATE_LIMIT_WAIT_MS, r)
                           ELSE scheduleReconnect(c, NoDelay, r)

isHelloData(frame) == frame.n # NoInterval
isReadyData(d) == d # "nonobject"
isFrame(raw) == raw.kind = "frame"
\* JSON.parse throws on text that is no JSON
ParseFails(raw) == raw.kind = "garbage"

\* handleHello up to its await: the token accessor is called and the rest
\* of the function is suspended.  The suspended call holds data; sock (the
\* socket that was current) and hadSession (a session id and a seq were
\* stored) record the moment of the Hello and are read by no code.
handleHello(st, frame) ==
    LET a == Did(st, [NoEffect EXCEPT !.e = "getToken", !.s = st.ws])
    IN  [a EXCEPT !.fetches = Append(@,
            [sock |-> st.ws, interval |-> frame.n,
             hadSession |-> (st.sessionId # NoSession /\ st.seq # NoSeq)])]

\* handleHello that resumes whenever a session id is stored
handleHelloResumed_SessionOnly(st, interval, token) ==
    IF st.disposed THEN st
    ELSE LET a == startHeartbeat(st, interval)
         IN  IF token = NoToken
             THEN LET b == [a EXCEPT !.intentionalClose = TRUE]
                  IN  IF b.ws # NULL THEN WsClose(b, b.ws, CLOSE_FORCE) ELSE b
             ELSE IF a.sessionId # NoSession
                  THEN send(a, [NoEffect EXCEPT !.n = OP_RESUME, !.d = token,
                                                !.k = a.sessionId, !.q = a.seq])
                  ELSE send(a, [NoEffect EXCEPT !.n = OP_IDENTIFY, !.d = token])

\* handleHello without the disposed check after the await
handleHelloResumed_NoDisposedCheck(st, interval, token) ==
    IF FALSE THEN st
    ELSE LET a == startHeartbeat(st, interval)
         IN  IF token = NoToken
             THEN LET b == [a EXCEPT !.intentionalClose = TRUE]
                  IN  IF b.ws # NULL THEN WsClose(b, b.ws, CLOSE_FORCE) ELSE b
             ELSE IF a.sessionId # NoSession /\ a.seq # NoSeq
                  THEN send(a, [NoEffect EXCEPT !.n = OP_RESUME, !.d = token,
                                                !.k = a.sessionId, !.q = a.seq])
                  ELSE send(a, [NoEffect EXCEPT !.n = OP_IDENTIFY, !.d = token])

\* handleHello from the await on, with the token the accessor resolved to
handleHelloResumed(st, interval, token) ==
    IF st.disposed THEN st
    ELSE LET a == startHeartbeat(st, interval)
         IN  IF token = NoToken
             THEN LET b == [a EXCEPT !.intentionalClose = TRUE]
                  IN  IF b.ws # NULL THEN WsClose(b, b.ws, CLOSE_FORCE) ELSE b
             ELSE IF a.sessionId # NoSession /\ a.seq # NoSeq
                  THEN send(a, [NoEffect EXCEPT !.n = OP_RESUME, !.d = token,
                                                !.k = a.sessionId, !.q = a.seq])
                  ELSE send(a, [NoEffect EXCEPT !.n = OP_IDENTIFY, !.d = token])

\* handleDispatch that stores the sequence number after its emissions
handleDispatch_SeqAfterEmit(st, frame) ==
    LET a == st
        b == IF frame.t = "READY" /\ isReadyData(frame.d)
             THEN emit(IF frame.d \in SessionIds
                       THEN [a EXCEPT !.sessionId = frame.d] ELSE a,
                       "open", Payload(frame.d))
             ELSE a
        c == IF Thrown(b) THEN b
             ELSE IF frame.t # "null" THEN emit(b, frame.t, Payload(frame.d)) ELSE b
    IN  IF frame.s # NoSeq THEN [c EXCEPT !.seq = frame.s] ELSE c

handleDispatch(st, frame) ==
    LET a == IF frame.s # NoSeq THEN [st EXCEPT !.seq = frame.s] ELSE st
        b == IF frame.t = "READY" /\ isReadyData(frame.d)
             THEN emit(IF frame.d \in SessionIds
                       THEN [a EXCEPT !.sessionId = frame.d] ELSE a,
                       "open", Payload(frame.d))
             ELSE a
    IN  IF Thrown(b) THEN b
        ELSE IF frame.t # "null" THEN emit(b, frame.t, Payload(frame.d)) ELSE b

\* handleMessage that closes the socket when the text does not parse
handleMessage_ClosesOnParseFailure(st, raw) ==
    IF st.disposed THEN st
    ELSE IF ParseFails(raw)
         THEN IF st.ws # NULL THEN WsClose(st, st.ws, CLOSE_FORCE) ELSE st
    ELSE IF ~isFrame(raw) THEN st
    ELSE IF raw.op = OP_HELLO
         THEN IF isHelloData(raw) THEN handleHello(st, raw) ELSE st
    ELSE IF raw.op = OP_DISPATCH THEN handleDispatch(st, raw)
    ELSE IF raw.op = OP_HEARTBEAT_ACK THEN [st EXCEPT !.heartbeatAckReceived = TRUE]
    ELSE IF raw.op = OP_RECONNECT
         THEN IF st.ws # NULL THEN WsClose(st, st.ws, CLOSE_FORCE) ELSE st
    ELSE IF raw.op = OP_INVALID_SESSION
         THEN LET a == IF raw.d # "true"
                       THEN [st EXCEPT !.sessionId = NoSession, !.seq = NoSeq]
                       ELSE st
              IN  IF a.ws # NULL THEN WsClose(a, a.ws, CLOSE_FORCE) ELSE a
    ELSE st

\* handleMessage that takes the payload of a Hello for what it should be
handleMessage_HelloUnchecked(st, raw) ==
    IF st.disposed THEN st
    ELSE IF ParseFails(raw) THEN st
    ELSE IF ~isFrame(raw) THEN st
    ELSE IF raw.op = OP_HELLO
         THEN IF TRUE THEN handleHello(st, raw) ELSE st
    ELSE IF raw.op = OP_DISPATCH THEN handleDispatch(st, raw)
    ELSE IF raw.op = OP_HEARTBEAT_ACK THEN [st EXCEPT !.heartbeatAckReceived = TRUE]
    ELSE IF raw.op = OP_RECONNECT
         THEN IF st.ws # NULL THEN WsClose(st, st.ws, CLOSE_FORCE) ELSE st
    ELSE IF raw.op = OP_INVALID_SESSION
         THEN LET a == IF raw.d # "true"
                       THEN [st EXCEPT !.sessionId = NoSession, !.seq = NoSeq]
                       ELSE st
              IN  IF a.ws # NULL THEN WsClose(a, a.ws, CLOSE_FORCE) ELSE a
    ELSE st

\* handleMessage that drops Heartbeat-ACK frames
handleMessage_IgnoresAck(st, raw) ==
    IF st.disposed THEN st
    ELSE IF ParseFails(raw) THEN st
    ELSE IF ~isFrame(raw) THEN st
    ELSE IF raw.op = OP_HELLO
         THEN IF isHelloData(raw) THEN handleHello(st, raw) ELSE st
    ELSE IF raw.op = OP_DISPATCH THEN handleDispatch(st, raw)
    ELSE IF raw.op = OP_HEARTBEAT_ACK THEN [st EXCEPT !.heartbeatAckReceived = @]
    ELSE IF raw.op = OP_RECONNECT
         THEN IF st.ws # NULL THEN WsClose(st, st.ws, CLOSE_FORCE) ELSE st
    ELSE IF raw.op = OP_INVALID_SESSION
         THEN LET a == IF raw.d # "true"
                       THEN [st EXCEPT !.sessionId = NoSession, !.seq = NoSeq]
                       ELSE st
              IN  IF a.ws # NULL THEN WsClose(a, a.ws, CLOSE_FORCE) ELSE a
    ELSE st

\* handleMessage that keeps the session whatever an Invalid-Session frame says
handleMessage_InvalidSessionKeepsSession(st, raw) ==
    IF st.disposed THEN st
    ELSE IF ParseFails(raw) THEN st
    ELSE IF ~isFrame(raw) THEN st
    ELSE IF raw.op = OP_HELLO
         THEN IF isHelloData(raw) THEN handleHello(st, raw) ELSE st
    ELSE IF raw.op = OP_DISPATCH THEN handleDispatch(st, raw)
    ELSE IF raw.op = OP_HEARTBEAT_ACK THEN [st EXCEPT !.heartbeatAckReceived = TRUE]
    ELSE IF raw.op = OP_RECONNECT
         THEN IF st.ws # NULL THEN WsClose(st, st.ws, CLOSE_FORCE) ELSE st
    ELSE IF raw.op = OP_INVALID_SESSION
         THEN LET a == IF raw.d # "true" /\ FALSE
                       THEN [st EXCEPT !.sessionId = NoSession, !.seq = NoSeq]
                       ELSE st
              IN  IF a.ws # NULL THEN WsClose(a, a.ws, CLOSE_FORCE) ELSE a
    ELSE st

handleMessage(st, raw) ==
    IF st.disposed THEN st
    ELSE IF ParseFails(raw) THEN st
    ELSE IF ~isFrame(raw) THEN st
    ELSE IF raw.op = OP_HELLO
         THEN IF isHelloData(raw) THEN handleHello(st, raw) ELSE st
    ELSE IF raw.op = OP_DISPATCH THEN handleDispatch(st, raw)
    ELSE IF raw.op = OP_HEARTBEAT_ACK THEN [st EXCEPT !.heartbeatAckReceived = TRUE]
    ELSE IF raw.op = OP_RECONNECT
         THEN IF st.ws # NULL THEN WsClose(st, st.ws, CLOSE_FORCE) ELSE st
    ELSE IF raw.op = OP_INVALID_SESSION
         THEN LET a == IF raw.d # "true"
                       THEN [st EXCEPT !.sessionId = NoSession, !.seq = NoSeq]
                       ELSE st
              IN  IF a.ws # NULL THEN WsClose(a, a.ws, CLOSE_FORCE) ELSE a
    ELSE st

\* ------------------------------------------------------------------------
\* Actions: one per callback the runtime runs and per public method
\* ------------------------------------------------------------------------
\* op names the callback, s its socket, n a number of it (opcode, close
\* code, timer id), k a string of it (event key of on()), g whether a
\* session was stored when the Hello of a settled token fetch was received,
\* h the handler of on() or of an unsubscribe function, frame the message
Event(op, s, n, k) ==
    [op |-> op, s |-> s, n |-> n, k |-> k, g |-> FALSE, h |-> "", frame |-> NoFrame]

\* the client receives a Heartbeat-ACK: the frame arrives on a socket whose
\* onmessage is attached
ReceivesAck(event) ==
    /\ event.op = "message" /\ event.k = "frame" /\ event.n = OP_HEARTBEAT_ACK
    /\ "onmessage" \in sockets[event.s].cb
    /\ ~disposed

\* the state after the callback `event`, which took the client to st
Step(st, event) ==
    /\ Commit(Release(st))
    /\ UNCHANGED <<baseUrl, activeClient, gws, calls, auth, typing>>
    /\ ev' = event
    /\ subscribed' =
          IF event.op = "on" THEN subscribed \cup {<<event.k, event.h>>}
          ELSE IF event.op = "unsubscribe" THEN subscribed \ {<<event.k, event.h>>}
          ELSE subscribed
    /\ awaitingAck' =
          IF \A i \in TimerIds : st.hbLive[i] = 0 THEN FALSE
          ELSE IF Has(st.out, "setInterval") THEN FALSE
          ELSE IF event.op = "heartbeat tick" /\ HasN(st.out, "send", OP_HEARTBEAT) THEN TRUE
          ELSE IF ReceivesAck(event) THEN FALSE
          ELSE awaitingAck
    /\ zombieCloses' =
          IF \A i \in TimerIds : st.hbLive[i] = 0 THEN 0
          ELSE IF Has(st.out, "setInterval") \/ Has(st.out, "new") THEN 0
          ELSE IF event.op = "heartbeat tick" /\ HasN(st.out, "close", CLOSE_FORCE)
               THEN (IF zombieCloses < 2 THEN zombieCloses + 1 ELSE 2)
          ELSE zombieCloses

InitWith(b) ==
    /\ baseUrl = b
    /\ ws = NULL
    /\ heartbeatTimer = NULL
    /\ heartbeatAckReceived = TRUE
    /\ reconnectTimer = NULL
    /\ reconnectAttempts = 0
    /\ sessionId = NoSession
    /\ seq = NoSeq
    /\ intentionalClose = FALSE
    /\ disposed = FALSE
    /\ sockets = [s \in SockIds |-> FreeSocket]
    /\ hbLive = [i \in TimerIds |-> 0]
    /\ rcLive = [i \in TimerIds |-> FALSE]
    /\ fetches = <<>>
    /\ listeners = [k \in ListenerKeys |-> NULL]
    /\ sets = [i \in SetIds |-> <<>>]
    /\ unsubs = {}
    /\ activeClient = NULL
    /\ gws = [e \in EffectIds |-> NoGateway]
    /\ calls = [i \in CallIds |-> NoCall]
    /\ auth = NoAuth
    /\ typing = Mounted
    /\ out = <<>>
    /\ cancelled = {}
    /\ stopped = {}
    /\ subscribed = {}
    /\ ev = Event("new GatewayClient", NULL, 0 - 1, "")
    /\ awaitingAck = FALSE
    /\ zombieCloses = 0

\* new GatewayClient(baseUrl, getToken)
Init == InitWith(DefaultBaseUrl)

\* the owner calls connect()
CallConnect ==
    /\ HasFreeSocket(Cur)
    /\ Step(connect(Cur), Event("connect", NULL, 0 - 1, ""))

\* the owner calls disconnect()
CallDisconnect ==
    Step(disconnect(Cur), Event("disconnect", NULL, 0 - 1, ""))

\* the owner calls sendPresenceUpdate(status)
CallSendPresenceUpdate ==
    \E status \in {"online"} :
        Step(sendPresenceUpdate(Cur, status), Event("sendPresenceUpdate", NULL, 0 - 1, status))

\* the transport of socket s opens
SocketOpens(s) ==
    /\ sockets[s].readyState = "CONNECTING"
    /\ LET a == [Cur EXCEPT !.sockets[s].readyState = "OPEN"]
       IN  Step(IF "onopen" \in a.sockets[s].cb THEN onopen(a) ELSE a,
                Event("open", s, 0 - 1, ""))

\* a message arrives on socket s
SocketMessage(s, raw) ==
    /\ sockets[s].readyState = "OPEN"
    /\ (raw.op = OP_HELLO /\ isHelloData(raw)) => Len(fetches) < MaxFetches
    /\ Step(IF "onmessage" \in sockets[s].cb THEN handleMessage(Cur, raw) ELSE Cur,
            [Event("message", s, raw.op, raw.kind) EXCEPT !.frame = raw])

\* socket s reports an error; its close event follows
SocketError(s) ==
    /\ sockets[s].readyState \in {"CONNECTING", "OPEN", "CLOSING"}
    /\ Step(Cur, Event("error", s, 0 - 1, ""))

\* socket s closes with the given code, while fewer than max reconnects
\* were scheduled since a socket last opened
SocketClosesWithin(s, code, r, max) ==
    /\ sockets[s].readyState \in {"CONNECTING", "OPEN", "CLOSING"}
    /\ reconnectAttempts < max
    /\ HasFreeTimeout(clearReconnectTimer(Cur))
    /\ LET a == [Cur EXCEPT !.sockets[s].readyState = "CLOSED"]
       IN  Step(IF "onclose" \in a.sockets[s].cb THEN onclose(a, s, code, r) ELSE a,
                Event("close", s, code, ""))

SocketCloses(s, code, r) == SocketClosesWithin(s, code, r, MaxAttempts)

\* the owner subscribes handler h to event key k
CallOn(k, h) ==
    /\ listeners[k] = NULL => FreeSets(Cur) # {}
    /\ Cardinality(on(Cur, k, h).unsubs) <= MaxClosures
    /\ Step(on(Cur, k, h), [Event("on", NULL, 0 - 1, k) EXCEPT !.h = h])

\* the owner calls an unsubscribe function it was given
CallUnsubscribe(c) ==
    /\ c \in unsubs
    /\ Step(unsubscribe(Cur, c),
            [Event("unsubscribe", NULL, c.set, c.event) EXCEPT !.h = c.handler])

\* the interval timer id fires
HeartbeatTimerFires(id) ==
    /\ hbLive[id] # 0
    /\ Step(heartbeatTick(Cur), Event("heartbeat tick", NULL, id, ""))

\* the timeout id set by scheduleReconnect fires
ReconnectTimerFires(id) ==
    /\ rcLive[id]
    /\ HasFreeSocket(Cur)
    /\ Step(connect([Cur EXCEPT !.rcLive[id] = FALSE]), Event("reconnect timer", NULL, id, ""))

\* the token accessor called by the i-th suspended handleHello settles:
\* it resolves to a token or to none, or it rejects
TokenSettles(i, token) ==
    /\ i \in 1 .. Len(fetches)
    /\ HasFreeInterval(stopHeartbeat(Cur))
    /\ LET f == fetches[i]
           a == [Cur EXCEPT !.fetches = SubSeq(@, 1, i - 1) \o SubSeq(@, i + 1, Len(@))]
       IN  Step(IF token = Rejected THEN a ELSE handleHelloResumed(a, f.interval, token),
                [Event("token", f.sock, f.interval, token) EXCEPT !.g = f.hadSession])

Next ==
    \/ CallConnect
    \/ CallDisconnect
    \/ CallSendPresenceUpdate
    \/ \E s \in SockIds : SocketOpens(s)
    \/ \E s \in SockIds, raw \in RawMessages : SocketMessage(s, raw)
    \/ \E s \in SockIds : SocketError(s)
    \/ \E s \in SockIds, code \in CloseCodes, r \in Rands : SocketCloses(s, code, r)
    \/ \E id \in TimerIds : HeartbeatTimerFires(id)
    \/ \E id \in TimerIds : ReconnectTimerFires(id)
    \/ \E i \in 1 .. MaxFetches, token \in Tokens \cup {NoToken, Rejected} : TokenSettles(i, token)

Spec == Init /\ [][Next]_vars

\* The client with subscribers and a server that sends no Hello: handlers
\* are subscribed and unsubscribed while frames arrive and sockets close.
DispatchMessages == {raw \in RawMessages : raw.op \in {OP_DISPATCH, OP_INVALID_SESSION}}

DispatchNext ==
    \/ CallConnect
    \/ CallDisconnect
    \/ \E k \in SubscribedKeys, h \in Handlers : CallOn(k, h)
    \/ \E c \in Closures : CallUnsubscribe(c)
    \/ \E s \in SockIds : SocketOpens(s)
    \/ \E s \in SockIds, raw \in DispatchMessages : SocketMessage(s, raw)
    \/ \E s \in SockIds, code \in CloseCodes, r \in Rands : SocketCloses(s, code, r)
    \/ \E id \in TimerIds : ReconnectTimerFires(id)

DispatchSpec == Init /\ [][DispatchNext]_vars

\* The client against a server that is down or refuses it: sockets open or
\* fail and close, and the reconnect timer runs, up to MaxRetries times in a row.
RetryNext ==
    \/ CallConnect
    \/ CallDisconnect
    \/ \E s \in SockIds : SocketOpens(s)
    \/ \E s \in SockIds, code \in CloseCodes, r \in Jitters :
          SocketClosesWithin(s, code, r, MaxRetries)
    \/ \E id \in TimerIds : ReconnectTimerFires(id)

RetrySpec == Init /\ [][RetryNext]_vars

\* The whole lifecycle against a server that keeps failing: as Spec, with up
\* to MaxRetries reconnects scheduled in a row.
BackoffNext ==
    \/ CallConnect
    \/ CallDisconnect
    \/ \E s \in SockIds : SocketOpens(s)
    \/ \E s \in SockIds, raw \in RawMessages : SocketMessage(s, raw)
    \/ \E s \in SockIds, code \in {1006, CLOSE_RATE_LIMITED}, r \in {0, 500} :
          SocketClosesWithin(s, code, r, MaxRetries)
    \/ \E id \in TimerIds : HeartbeatTimerFires(id)
    \/ \E id \in TimerIds : ReconnectTimerFires(id)
    \/ \E i \in 1 .. MaxFetches, token \in Tokens : TokenSettles(i, token)

BackoffSpec == Init /\ [][BackoffNext]_vars

\* The client with a "close" handler that calls connect(): the server is
\* down or refuses the client, as in RetrySpec.
ReentryNext ==
    \/ CallConnect
    \/ CallDisconnect
    \/ \E h \in Reconnectors : CallOn("close", h)
    \/ \E c \in [set : SetIds, event : {"close"}, handler : Reconnectors] : CallUnsubscribe(c)
    \/ \E s \in SockIds : SocketOpens(s)
    \/ \E s \in SockIds, code \in CloseCodes, r \in Rands : SocketCloses(s, code, r)
    \/ \E id \in TimerIds : ReconnectTimerFires(id)

ReentrySpec == Init /\ [][ReentryNext]_vars

\* ------------------------------------------------------------------------
\* GatewayProvider (gateway-context.tsx): runs of its effect, each with the
\* client it makes, the deferred connect timer and the cleanup.  Of a client
\* the provider sees disposed, whether this.ws is set and whether a
\* reconnect timer is pending; fired and opened are history (the deferred
\* connect ran, the client made a socket).
\* ------------------------------------------------------------------------
ProviderCur == [activeClient |-> activeClient, gws |-> gws]

\* gw.connect()
gwConnect(c) ==
    IF c.disposed THEN c
    ELSE [c EXCEPT !.reconnectTimer = FALSE, !.ws = TRUE, !.opened = TRUE]

\* gw.disconnect()
gwDisconnect(c) == [c EXCEPT !.disposed = TRUE, !.reconnectTimer = FALSE, !.ws = FALSE]

\* the effect body: new GatewayClient and the deferred connect
effectRun(p, e) ==
    [p EXCEPT !.gws[e] = [NoGateway EXCEPT !.effect = "mounted", !.connectTimer = TRUE]]

\* the deferred connect without the teardown of the lingering singleton
connectTimerCallback_NoTeardown(p, e) ==
    LET a == p
        b == [a EXCEPT !.activeClient = e]
    IN  [b EXCEPT !.gws[e] = [gwConnect(@) EXCEPT !.connectTimer = FALSE, !.fired = TRUE]]

\* the callback of connectTimer
connectTimerCallback(p, e) ==
    LET a == IF p.activeClient # NULL /\ p.activeClient # e
             THEN [p EXCEPT !.gws[p.activeClient] = gwDisconnect(@)]
             ELSE p
        b == [a EXCEPT !.activeClient = e]
    IN  [b EXCEPT !.gws[e] = [gwConnect(@) EXCEPT !.connectTimer = FALSE, !.fired = TRUE]]

\* the cleanup the effect returns
effectCleanup(p, e) ==
    LET a == [p EXCEPT !.gws[e].connectTimer = FALSE]
        b == IF a.activeClient = e THEN [a EXCEPT !.activeClient = NULL] ELSE a
    IN  [b EXCEPT !.gws[e] = [gwDisconnect(@) EXCEPT !.effect = "cleaned"]]

ProviderStep(p) ==
    /\ activeClient' = p.activeClient
    /\ gws' = p.gws
    /\ UNCHANGED <<ws, heartbeatTimer, heartbeatAckReceived, reconnectTimer,
                   reconnectAttempts, sessionId, seq, intentionalClose, disposed,
                   sockets, hbLive, rcLive, fetches, listeners, sets, unsubs,
                   baseUrl, calls, auth, typing, out, cancelled, stopped, subscribed, ev,
                   awaitingAck,
                   zombieCloses>>

\* React runs the effect of a mounted provider
EffectRuns(e) ==
    /\ gws[e].effect = "idle"
    /\ ProviderStep(effectRun(ProviderCur, e))

\* the deferred connect timer of run e fires
ConnectTimerFires(e) ==
    /\ gws[e].connectTimer
    /\ ProviderStep(connectTimerCallback(ProviderCur, e))

\* React cleans run e up (unmount, dependency change, Strict Mode)
EffectCleansUp(e) ==
    /\ gws[e].effect = "mounted"
    /\ ProviderStep(effectCleanup(ProviderCur, e))

\* the socket of the client of run e closes and its onclose schedules a reconnect
GatewaySocketCloses(e) ==
    /\ gws[e].ws /\ ~gws[e].disposed /\ ~gws[e].reconnectTimer
    /\ ProviderStep([ProviderCur EXCEPT !.gws[e].reconnectTimer = TRUE])

\* the reconnect timer of the client of run e fires
GatewayReconnects(e) ==
    /\ gws[e].reconnectTimer
    /\ ProviderStep([ProviderCur EXCEPT !.gws[e] = gwConnect([@ EXCEPT !.reconnectTimer = FALSE])])

ProviderNext ==
    \/ \E e \in EffectIds : EffectRuns(e)
    \/ \E e \in EffectIds : ConnectTimerFires(e)
    \/ \E e \in EffectIds : EffectCleansUp(e)
    \/ \E e \in EffectIds : GatewaySocketCloses(e)
    \/ \E e \in EffectIds : GatewayReconnects(e)

ProviderSpec == Init /\ [][ProviderNext]_vars

\* Clients constructed with any of the base addresses, connected and closed.
UrlInit == \E b \in BaseUrls : InitWith(b)

UrlNext ==
    \/ CallConnect
    \/ CallDisconnect
    \/ \E s \in SockIds : SocketOpens(s)

UrlSpec == UrlInit /\ [][UrlNext]_vars

\* ------------------------------------------------------------------------
\* getToken and the close listener of GatewayProvider (gateway-context.tsx)
\* ------------------------------------------------------------------------
\* gw.on("close", (data) => ...)
closeListener(a, code) ==
    LET b == IF code = CLOSE_INVALID_TOKEN THEN [a EXCEPT !.tokenRejectedAt = a.now] ELSE a
    IN  IF code = CLOSE_INVALID_TOKEN
        THEN [b EXCEPT !.closedAt = a.now, !.since = 0, !.firstAt = 0,
                       !.firstForced = FALSE, !.forced = 0]
        ELSE b

\* the history of a call of getToken that begins and does (or does not)
\* start with refreshSession
began(a, refreshFirst) ==
    [a EXCEPT !.since = IF @ < 2 THEN @ + 1 ELSE @,
              !.firstAt = IF a.since = 0 THEN a.now ELSE @,
              !.firstForced = IF a.since = 0 THEN refreshFirst ELSE @,
              !.forced = IF refreshFirst /\ @ < 2 THEN @ + 1 ELSE @]

\* getToken whose flag never expires
getToken_FlagNeverExpires(a) ==
    IF a.tokenRejectedAt > 0 /\ TRUE
    THEN [began(a, TRUE) EXCEPT !.tokenRejectedAt = 0, !.pc = "forced refreshSession",
                                !.result = "none"]
    ELSE [began(a, FALSE) EXCEPT !.pc = "getAccessToken", !.result = "none"]

\* getToken up to its first await
getToken(a) ==
    IF a.tokenRejectedAt > 0 /\ a.now - a.tokenRejectedAt < TOKEN_REJECTED_TTL_MS
    THEN [began(a, TRUE) EXCEPT !.tokenRejectedAt = 0, !.pc = "forced refreshSession",
                                !.result = "none"]
    ELSE [began(a, FALSE) EXCEPT !.pc = "getAccessToken", !.result = "none"]

\* getToken from the await it is suspended at, which resolved to v
getTokenResumed(a, v) ==
    IF a.pc = "forced refreshSession" THEN [a EXCEPT !.pc = "forced getAccessToken"]
    ELSE IF a.pc = "forced getAccessToken" THEN [a EXCEPT !.pc = "idle", !.result = v]
    ELSE IF a.pc = "getAccessToken"
         THEN IF v # "null" THEN [a EXCEPT !.pc = "idle", !.result = v]
              ELSE [a EXCEPT !.pc = "refreshSession"]
    ELSE IF a.pc = "refreshSession" THEN [a EXCEPT !.pc = "getAccessToken2"]
    ELSE IF a.pc = "getAccessToken2" THEN [a EXCEPT !.pc = "idle", !.result = v]
    ELSE a

AuthStep(a) ==
    /\ auth' = a
    /\ UNCHANGED <<ws, heartbeatTimer, heartbeatAckReceived, reconnectTimer,
                   reconnectAttempts, sessionId, seq, intentionalClose, disposed,
                   sockets, hbLive, rcLive, fetches, listeners, sets, unsubs,
                   baseUrl, activeClient, gws, calls, typing, out, cancelled, stopped,
                   subscribed, ev, awaitingAck, zombieCloses>>

\* time passes
ClockAdvances ==
    /\ auth.now < MaxClock * ClockStep
    /\ AuthStep([auth EXCEPT !.now = @ + ClockStep])

\* the client emits close with the given code
GatewayEmitsClose(code) ==
    /\ code \in CloseCodes
    /\ AuthStep(closeListener(auth, code))

\* handleHello of the client calls the token accessor
GetTokenCalled ==
    /\ auth.pc = "idle"
    /\ AuthStep(getToken(auth))

\* the promise getToken awaits resolves to v
GetTokenAwaitResolves(v) ==
    /\ v \in AuthAwaited(auth.pc)
    /\ AuthStep(getTokenResumed(auth, v))

\* the promise getToken awaits rejects, and so does getToken
GetTokenAwaitRejects ==
    /\ AuthAwaited(auth.pc) # {}
    /\ AuthStep([auth EXCEPT !.pc = "idle", !.result = "rejected"])

AuthNext ==
    \/ ClockAdvances
    \/ \E code \in {1006, CLOSE_INVALID_TOKEN} : GatewayEmitsClose(code)
    \/ GetTokenCalled
    \/ \E v \in {"tok", "null", "void"} : GetTokenAwaitResolves(v)
    \/ GetTokenAwaitRejects

AuthSpec == Init /\ [][AuthNext]_vars

\* ------------------------------------------------------------------------
\* useTypingUsers (use-typing-users.ts)
\* ------------------------------------------------------------------------
\* Array.from(typingMapRef.current.keys())
keys(t) == {u \in UserIds : t.map[u] # NoExpiry}

\* a render of the hook with the argument c: the ref follows the argument,
\* the [channelId] effect is due when the argument changed, and the render
\* returns the typingUsers state as it stands
render(t, c) ==
    [t EXCEPT !.channelId = c, !.channelIdRef = c, !.reset = t.reset \/ c # t.channelId]

\* useEffect(() => { typingMapRef.current.clear(); setTypingUsers([]); }, [channelId])
resetEffect(t) ==
    [t EXCEPT !.map = [u \in UserIds |-> NoExpiry], !.typingUsers = {}, !.reset = FALSE]

\* removeUser(userId)
removeUser(t, userId) ==
    IF t.map[userId] # NoExpiry
    THEN LET d == [t EXCEPT !.map[userId] = NoExpiry]
         IN  [d EXCEPT !.typingUsers = keys(d)]
    ELSE t

\* the TYPING_START handler
onTypingStart(t, data) ==
    IF ~(data.object /\ data.timestamp) THEN t
    ELSE IF data.channel_id # t.channelIdRef THEN t
    ELSE IF data.user_id = CurrentUserId THEN t
    ELSE LET d == [t EXCEPT !.map[data.user_id] = t.now + TYPING_EXPIRY_MS]
         IN  [d EXCEPT !.typingUsers = keys(d)]

\* the TYPING_STOP handler
onTypingStop(t, data) ==
    IF ~data.object THEN t
    ELSE IF data.channel_id # t.channelIdRef THEN t
    ELSE removeUser(t, data.user_id)

\* the MESSAGE_CREATE handler; user_id stands for author.id
onMessageCreate(t, data) ==
    IF ~data.object THEN t
    ELSE IF data.channel_id # t.channelIdRef THEN t
    ELSE removeUser(t, data.user_id)

\* the callback of the cleanup interval
cleanupInterval(t) ==
    LET expired == {u \in UserIds : t.map[u] # NoExpiry /\ t.map[u] <= t.now}
        d == [t EXCEPT !.map = [u \in UserIds |-> IF u \in expired THEN NoExpiry ELSE @[u]]]
    IN  IF expired # {} THEN [d EXCEPT !.typingUsers = keys(d)] ELSE t

\* history: a TYPING_START for the viewed channel from another user than the
\* current one was emitted
opened(t, data) ==
    IF data.object /\ data.channel_id = t.channelId /\ data.user_id # CurrentUserId
    THEN [t EXCEPT !.open = @ \cup {data.user_id}, !.started[data.user_id] = t.now]
    ELSE t

\* history: a TYPING_STOP for the user and the viewed channel, or a
\* MESSAGE_CREATE by the user in the viewed channel, was emitted
ended(t, data) ==
    IF data.object /\ data.channel_id = t.channelId
    THEN [t EXCEPT !.open = @ \ {data.user_id}]
    ELSE t

\* history: a cleanup tick at or after 12 s since the latest TYPING_START
elapsed(t) ==
    [t EXCEPT !.open = {u \in @ : t.now < t.started[u] + TYPING_EXPIRY_MS}]

\* history: the viewed channel changed
channelChanged(t, c) == IF c # t.channelId THEN [t EXCEPT !.open = {}] ELSE t

TypingStep(t) ==
    /\ typing' = t
    /\ UNCHANGED <<ws, heartbeatTimer, heartbeatAckReceived, reconnectTimer,
                   reconnectAttempts, sessionId, seq, intentionalClose, disposed,
                   sockets, hbLive, rcLive, fetches, listeners, sets, unsubs,
                   baseUrl, activeClient, gws, calls, auth, out, cancelled, stopped,
                   subscribed, ev, awaitingAck, zombieCloses>>

\* Date.now() advances
TypingClockAdvances ==
    /\ typing.now < MaxClock * TypingClockStep
    /\ TypingStep([typing EXCEPT !.now = @ + TypingClockStep])

\* the component renders with the channel c; React runs the effects of a
\* render before it runs anything else of the hook
Render(c) ==
    /\ ~typing.reset
    /\ TypingStep(render(channelChanged(typing, c), c))

\* the [channelId] effect of the latest render runs
ResetEffectRuns ==
    /\ typing.reset
    /\ TypingStep(resetEffect(typing))

\* the gateway client emits TYPING_START with the payload data
EmitTypingStart(data) ==
    /\ ~typing.reset
    /\ TypingStep(onTypingStart(opened(typing, data), data))

\* the gateway client emits TYPING_STOP with the payload data
EmitTypingStop(data) ==
    /\ ~typing.reset
    /\ TypingStep(onTypingStop(ended(typing, data), data))

\* the gateway client emits MESSAGE_CREATE with the payload data
EmitMessageCreate(data) ==
    /\ ~typing.reset
    /\ TypingStep(onMessageCreate(ended(typing, data), data))

\* the cleanup interval fires
CleanupTick ==
    /\ ~typing.reset
    /\ TypingStep(cleanupInterval(elapsed(typing)))

TypingNext ==
    \/ TypingClockAdvances
    \/ \E c \in Channels \cup {NoChannel} : Render(c)
    \/ ResetEffectRuns
    \/ \E data \in TypingPayloads : EmitTypingStart(data)
    \/ \E data \in TypingPayloads : EmitTypingStop(data)
    \/ \E data \in TypingPayloads : EmitMessageCreate(data)
    \/ CleanupTick

TypingSpec == Init /\ [][TypingNext]_vars

\* ------------------------------------------------------------------------
\* fetchWithRefresh (fetch-with-refresh.ts)
\* ------------------------------------------------------------------------
\* fetchWithRefresh up to its first await: doFetchWithRefresh calls
\* getAccessToken, withTimeout sets its timer
startCall(c) == [NoCall EXCEPT !.pc = "getAccessToken", !.timer = TRUE]

\* doFetchWithRefresh returns r: withTimeout resolves with it and clears its
\* timer, unless the timeout has settled the promise before
settle(c, r) ==
    [c EXCEPT !.pc = "done", !.timer = FALSE,
              !.outer = "resolved",
              !.result = IF c.outer = "pending" THEN r ELSE @]

\* fetchWithRefresh without its try/catch
caught_Rethrown(c) ==
    IF c.outer = "pending"
    THEN [c EXCEPT !.outer = "rejected", !.result = "error"]
    ELSE c

\* the catch of fetchWithRefresh: whatever withTimeout rejected with
caught(c) ==
    IF c.outer = "pending"
    THEN [c EXCEPT !.outer = "resolved", !.result = "Request timed out."]
    ELSE c

\* doFetchWithRefresh that refreshes after every failure
resume_RefreshesOnEveryFailure(c, v) ==
    IF c.pc = "getAccessToken"
    THEN LET a == [c EXCEPT !.tokens = Append(@, v)]
         IN  IF v = "null" THEN settle(a, "Not authenticated.")
             ELSE [a EXCEPT !.pc = "fetcher", !.fetcherCalls = @ + 1]
    ELSE IF c.pc = "fetcher"
    THEN LET a == [c EXCEPT !.first = v]
         IN  IF v = "ok" THEN settle(a, "data")
             ELSE IF TRUE
                  THEN [a EXCEPT !.pc = "refreshSession", !.refreshCalls = @ + 1]
                  ELSE settle(a, v)
    ELSE IF c.pc = "refreshSession"
    THEN [c EXCEPT !.pc = "getAccessToken2"]
    ELSE IF c.pc = "getAccessToken2"
    THEN LET a == [c EXCEPT !.tokens = Append(@, v)]
         IN  IF v = "null" THEN settle(a, "Session expired. Please log in again.")
             ELSE [a EXCEPT !.pc = "retry", !.fetcherCalls = @ + 1]
    ELSE IF c.pc = "retry"
    THEN IF v = "ok" THEN settle(c, "data") ELSE settle(c, v)
    ELSE c

\* doFetchWithRefresh from the await it is suspended at, which resolved to v
resume(c, v) ==
    IF c.pc = "getAccessToken"
    THEN LET a == [c EXCEPT !.tokens = Append(@, v)]
         IN  IF v = "null" THEN settle(a, "Not authenticated.")
             ELSE [a EXCEPT !.pc = "fetcher", !.fetcherCalls = @ + 1]
    ELSE IF c.pc = "fetcher"
    THEN LET a == [c EXCEPT !.first = v]
         IN  IF v = "ok" THEN settle(a, "data")
             ELSE IF v = "TOKEN_EXPIRED"
                  THEN [a EXCEPT !.pc = "refreshSession", !.refreshCalls = @ + 1]
                  ELSE settle(a, v)
    ELSE IF c.pc = "refreshSession"
    THEN [c EXCEPT !.pc = "getAccessToken2"]
    ELSE IF c.pc = "getAccessToken2"
    THEN LET a == [c EXCEPT !.tokens = Append(@, v)]
         IN  IF v = "null" THEN settle(a, "Session expired. Please log in again.")
             ELSE [a EXCEPT !.pc = "retry", !.fetcherCalls = @ + 1]
    ELSE IF c.pc = "retry"
    THEN IF v = "ok" THEN settle(c, "data") ELSE settle(c, v)
    ELSE c

\* the awaited promise rejects: doFetchWithRefresh rejects, withTimeout
\* clears its timer and rejects, fetchWithRefresh catches
rejected(c) == caught([c EXCEPT !.pc = "done", !.timer = FALSE])

\* the timer of withTimeout fires and rejects; doFetchWithRefresh goes on
timedOut(c) == caught([c EXCEPT !.timer = FALSE])

CallStep(i, c) ==
    /\ calls' = [calls EXCEPT ![i] = c]
    /\ UNCHANGED <<ws, heartbeatTimer, heartbeatAckReceived, reconnectTimer,
                   reconnectAttempts, sessionId, seq, intentionalClose, disposed,
                   sockets, hbLive, rcLive, fetches, listeners, sets, unsubs,
                   baseUrl, activeClient, gws, auth, typing, out, cancelled, stopped,
                   subscribed, ev,
                   awaitingAck, zombieCloses>>

\* a caller calls fetchWithRefresh
CallFetchWithRefresh(i) ==
    /\ calls[i].pc = "idle"
    /\ CallStep(i, startCall(calls[i]))

\* the promise call i awaits resolves to v
AwaitResolves(i, v) ==
    /\ v \in Awaited(calls[i].pc)
    /\ CallStep(i, resume(calls[i], v))

\* the promise call i awaits rejects
AwaitRejects(i) ==
    /\ Awaited(calls[i].pc) # {}
    /\ CallStep(i, rejected(calls[i]))

\* the overall timeout of call i fires
TimeoutFires(i) ==
    /\ calls[i].timer
    /\ CallStep(i, timedOut(calls[i]))

FetchNext ==
    \/ \E i \in CallIds : CallFetchWithRefresh(i)
    \/ \E i \in CallIds, v \in TokenValues \cup FetcherValues \cup {"void"} : AwaitResolves(i, v)
    \/ \E i \in CallIds : AwaitRejects(i)
    \/ \E i \in CallIds : TimeoutFires(i)

\* Timers fire: the timeout of a call that stays pending is run.
FetchSpec == Init /\ [][FetchNext]_vars /\ \A i \in CallIds : WF_vars(TimeoutFires(i))

\* Timers fire: a reconnect timeout that stays pending is eventually run.
\* This is weak fairness of ReconnectTimerFires written out: the action is
\* enabled exactly while a timeout is pending, and a step takes it exactly
\* when the callback that ran is the reconnect timer.
TimerPending == \E id \in TimerIds : rcLive[id]
TimerRan == ev'.op = "reconnect timer"
FairSpec == Spec /\ ([]<>(~TimerPending) \/ []<><<TimerRan>>_vars)

\* ------------------------------------------------------------------------
\* Properties
\* ------------------------------------------------------------------------
SocketEvents == {"open", "message", "close", "error"}
Answered(o) == HasN(o, "send", OP_RESUME) \/ HasN(o, "send", OP_IDENTIFY)
HasSession == sessionId # NoSession /\ seq # NoSeq
NoTimerRuns == \A i \in TimerIds : hbLive[i] = 0 /\ ~rcLive[i]

\* C1: once disconnect() was called the client stays disposed and no later
\* callback or method call makes a WebSocket.
C1_NoSocketAfterDisconnect ==
    [][/\ ev'.op = "disconnect" => disposed'
       /\ disposed => (disposed' /\ ~Has(out', "new"))]_vars

\* connect() was called on a disposed client
C1_Witness == disposed /\ ev.op = "connect"

\* C2 as stated: the frame that answers a Hello is Resume exactly when a
\* session id and a seq were stored at the moment the Hello was received.
C2_ResumeIffSessionAtHello ==
    (ev.op = "token" /\ Answered(out)) => (HasN(out, "send", OP_RESUME) <=> ev.g)

\* C2 amended: the frame that answers a Hello is Resume (with the stored
\* session id and seq) exactly when both are stored at the moment the token
\* fetch resolves, and Identify otherwise; an answer is sent whenever a token
\* arrives for a client that is not disposed and whose socket is open; no
\* Resume is sent while sessionId or seq is absent.
C2_ResumeIffSessionAtSend ==
    /\ (ev.op = "token" /\ ev.k \in Tokens /\ ~disposed /\ ws # NULL
            /\ sockets[ws].readyState = "OPEN")
       => Answered(out)
    /\ (ev.op = "token" /\ Answered(out))
       => /\ Count(out, "send") = 1
          /\ HasN(out, "send", OP_RESUME) <=> HasSession
          /\ HasN(out, "send", OP_IDENTIFY) <=> ~HasSession
    /\ \A i \in 1 .. Len(out) :
          (out[i].e = "send" /\ out[i].n = OP_RESUME)
          => (HasSession /\ out[i].k = sessionId /\ out[i].q = seq /\ out[i].d = ev.k)

\* a Hello was answered with Resume
C2_Witness == ev.op = "token" /\ HasN(out, "send", OP_RESUME)

\* C3: only the current socket has callbacks attached; connect() closes the
\* previous socket before it makes the new one; an event of a socket that is
\* not the current one does nothing.
C3_OnlyCurrentSocketAttached ==
    /\ [](\A s \in SockIds : sockets[s].cb # {} => s = ws)
    /\ [][/\ (ev'.op \in {"connect", "reconnect timer"} /\ ~disposed /\ ws # NULL)
             => (/\ Len(out') = 2
                 /\ out'[1].e = "close" /\ out'[1].s = ws /\ out'[1].n = CLOSE_NORMAL
                 /\ out'[2].e = "new" /\ out'[2].s = ws')
          /\ (ev'.op \in SocketEvents /\ ev'.s # ws)
             => (/\ out' = <<>>
                 /\ UNCHANGED <<ws, heartbeatTimer, heartbeatAckReceived, reconnectTimer,
                                reconnectAttempts, sessionId, seq, intentionalClose,
                                disposed, hbLive, rcLive, fetches>>)]_vars

\* the close event of a socket that connect() has replaced arrived
C3_Witness == ev.op = "close" /\ ws # NULL /\ ev.s # ws /\ ev.n = CLOSE_INVALID_TOKEN

\* C4: a disposed client has no timer and no socket, and no callback that
\* runs later starts a timer, invokes a handler, sends a frame, changes the
\* session or schedules a reconnect.
C4_DisconnectIsFinal ==
    [][/\ disposed' => (ws' = NULL /\ heartbeatTimer' = NULL /\ reconnectTimer' = NULL
                         /\ NoTimerRuns' /\ \A s \in SockIds : sockets'[s].cb = {})
       /\ disposed => (/\ disposed'
                       /\ \A i \in 1 .. Len(out') :
                             out'[i].e \notin {"setInterval", "setTimeout", "emit", "send", "new"}
                       /\ sessionId' = sessionId /\ seq' = seq)]_vars

\* a token fetch resolved with a token after disconnect()
C4_Witness == disposed /\ ev.op = "token" /\ ev.k \in Tokens

\* C5 as stated: a token fetch that resolves when the socket of its Hello is
\* no longer the current socket, or has closed, starts no heartbeat timer,
\* sends no frame and closes no socket.
C5_StaleFetchDoesNothing ==
    (ev.op = "token" /\ ev.k # Rejected
        /\ (ev.s # ws \/ sockets[ws].readyState = "CLOSED"))
    => (~Has(out, "setInterval") /\ ~Has(out, "send") /\ ~Has(out, "close"))

\* C6: a tick of the running monitor that finds its last heartbeat without a
\* Heartbeat-ACK calls close(4000) on the current socket and sends nothing.
C6_MissedAckCloses ==
    [][(ev'.op = "heartbeat tick" /\ awaitingAck)
       => (/\ ws # NULL
           /\ out' = <<[NoEffect EXCEPT !.e = "close", !.s = ws, !.n = CLOSE_FORCE]>>)]_vars

\* a tick found the heartbeat unanswered and closed the socket
C6_Witness == ev.op = "heartbeat tick" /\ awaitingAck /\ HasN(out, "close", CLOSE_FORCE)

\* C7 as stated: for one zombie detection close(4000) is called once.
C7_ZombieClosedOnce == zombieCloses <= 1

\* C7 amended: the tick that detects the zombie calls close(4000) once, every
\* further tick of that monitor that fires before the close event of the
\* socket is delivered calls close(4000) once more, and the close event stops
\* the monitor, so that no tick calls close after it.
C7_ZombieClosedPerTick ==
    [][/\ (ev'.op = "heartbeat tick" /\ zombieCloses >= 1)
          => (/\ out' = <<[NoEffect EXCEPT !.e = "close", !.s = ws, !.n = CLOSE_FORCE]>>
              /\ zombieCloses' = (IF zombieCloses < 2 THEN zombieCloses + 1 ELSE 2))
       /\ ev'.op = "heartbeat tick" => Count(out', "close") <= 1
       /\ (ev'.op = "close" /\ ev'.s = ws)
          => (heartbeatTimer' = NULL /\ \A i \in TimerIds : hbLive'[i] = 0)]_vars

\* a second tick fired after the detection, before the close event
C7_Witness == zombieCloses = 2 /\ ev.op = "heartbeat tick"

\* C8: the current socket of a client that is not disposed closed with an
\* abnormal code, and not intentionally
ClosedAbnormally ==
    /\ ev.op = "close" /\ ev.s = ws /\ ev.n # CLOSE_NORMAL
    /\ ~disposed /\ ~intentionalClose

C9_ReconnectOnlyOnAbnormalClose ==
    Has(out, "setTimeout") => ClosedAbnormally

\* C10 as stated, for the callback that runs next: after the token accessor
\* returned no token, nothing but a connect() of the owner makes a socket or
\* schedules a reconnect.
C10_NoReconnectAfterMissingToken ==
    [][(ev.op = "token" /\ ev.k = NoToken /\ ~disposed /\ ev'.op # "connect")
       => (~Has(out', "new") /\ ~Has(out', "setTimeout"))]_vars

\* the current socket of a client that is not disposed closed, and not
\* intentionally
ClosedUnintended == ev.op = "close" /\ ev.s = ws /\ ~disposed /\ ~intentionalClose

\* C11 as stated: a rate-limited close (4008) of the current socket sets
\* exactly one reconnect timer, and its delay is exactly RATE_LIMIT_WAIT_MS.
C11_RateLimitedWaitIsExact ==
    (ClosedUnintended /\ ev.n = CLOSE_RATE_LIMITED)
    => (Count(out, "setTimeout") = 1 /\ HasN(out, "setTimeout", RATE_LIMIT_WAIT_MS))

\* min(1000 * 2^n, 30000), written out
C12_Base(n) == IF n >= 5 THEN 30000 ELSE 1000 * 2 ^ n

\* C12: the delay d of a default reconnect that was scheduled while
\* reconnectAttempts was n lies in [0.5 * min(1000 * 2^n, 30000),
\* 1.5 * min(1000 * 2^n, 30000)]; the counter is n + 1 afterwards.
C12_BackoffWithinJitterRange ==
    (ev.op = "close" /\ ev.n # CLOSE_RATE_LIMITED)
    => \A i \in 1 .. Len(out) :
          out[i].e = "setTimeout"
          => /\ reconnectAttempts >= 1
             /\ 2 * out[i].n >= C12_Base(reconnectAttempts - 1)
             /\ 2 * out[i].n <= 3 * C12_Base(reconnectAttempts - 1)

\* a default reconnect was scheduled at the capped base with the lowest jitter
C12_Witness ==
    /\ ev.op = "close" /\ ev.n = 1006 /\ reconnectAttempts = 6
    /\ HasN(out, "setTimeout", 15000)

\* C13 as stated: handling a rate-limited close leaves the exponential
\* backoff counter as it was.
C13_RateLimitLeavesBackoffCounter ==
    [][(ev'.op = "close" /\ ev'.n = CLOSE_RATE_LIMITED)
       => reconnectAttempts' = reconnectAttempts]_vars

\* handler h receives the emissions for key k: it is in the Set that
\* this.listeners holds for k
Registered(k, h) == listeners[k] # NULL /\ h \in Elements(sets[listeners[k]])
RegisteredNext(k, h) == listeners'[k] # NULL /\ h \in Elements(sets'[listeners'[k]])

\* C14 as stated: a call of the function returned by on(k, h) stops h from
\* receiving emissions for k and changes no other registration: every other
\* handler under k, and h under every other key, receives emissions
\* afterwards exactly if it did before.
C14_UnsubscribeRemovesOnlyItsHandler ==
    [][ev'.op = "unsubscribe"
       => /\ ~RegisteredNext(ev'.k, ev'.h)
          /\ \A k \in ListenerKeys, h \in Handlers :
                (k # ev'.k \/ h # ev'.h) => (RegisteredNext(k, h) <=> Registered(k, h))]_vars

\* the handlers invoked for key k by the last callback, in order
Called(k) ==
    LET cs == SelectSeq(out, LAMBDA x : x.e = "call" /\ x.k = k)
    IN  [i \in 1 .. Len(cs) |-> cs[i].h]
\* the handlers registered under key k, in insertion order
Subscribers(k) == IF listeners[k] = NULL THEN <<>> ELSE sets[listeners[k]]

\* the last callback was the message callback of the current socket of a
\* client that is not disposed, and the message was a dispatch frame
DispatchProcessed ==
    /\ ev.op = "message" /\ ev.s = ws /\ ~disposed
    /\ ev.frame.kind = "frame" /\ ev.frame.op = OP_DISPATCH

\* C15 as stated: no exception of a handler leaves the message or close
\* callback; every emission invokes every handler registered for its key;
\* the READY emission follows the open emission and the reconnect is
\* scheduled after the close emission, whatever the handlers do.
C15_ThrowingHandlerIsIsolated ==
    /\ ~Has(out, "uncaught")
    /\ \A i \in 1 .. Len(out) : out[i].e = "emit" => Called(out[i].k) = Subscribers(out[i].k)
    /\ (DispatchProcessed /\ ev.frame.t = "READY")
       => \E i \in 1 .. Len(out) : out[i].e = "emit" /\ out[i].k = "READY"
    /\ ClosedUnintended => Has(out, "setTimeout")

\* C16 as stated: a dispatch frame with event type t invokes every handler
\* registered under t once, in the callback of that frame, with the payload
\* of that frame; handlers of dispatch events are invoked by no other callback.
C16_DispatchInOrderOncePerHandler ==
    /\ (DispatchProcessed /\ ev.frame.t # "null")
       => Called(ev.frame.t) = Subscribers(ev.frame.t)
    /\ \A i \in 1 .. Len(out) :
          (out[i].e = "call" /\ out[i].k # "close")
          => /\ DispatchProcessed
             /\ out[i].d = ev.frame.d
             /\ out[i].k = ev.frame.t \/ (out[i].k = "open" /\ ev.frame.t = "READY")

\* the session fields were cleared: the current socket closed with the
\* invalid-token code, or an Invalid-Session frame that is not resumable came
SessionReset ==
    \/ ev.op = "close" /\ ev.n = CLOSE_INVALID_TOKEN
    \/ ev.op = "message" /\ ev.frame.op = OP_INVALID_SESSION /\ ev.frame.d # "true"

\* C17: after a dispatch frame with a sequence number s was processed, seq
\* is s, and every handler invoked for the frame found seq = s (also for
\* s = 0, for frames without event type and for event types nobody
\* subscribed to); seq changes only by such a frame or by a session reset.
C17_SeqSetBeforeHandlers ==
    [][/\ (DispatchProcessed /\ ev.frame.s # NoSeq)'
          => (/\ seq' = ev'.frame.s
              /\ \A i \in 1 .. Len(out') : out'[i].e = "call" => out'[i].q = ev'.frame.s)
       /\ seq' # seq
          => \/ (DispatchProcessed /\ ev.frame.s # NoSeq)'
             \/ (SessionReset' /\ seq' = NoSeq)]_vars

\* a handler was invoked for a dispatch frame with s = 0 that changed seq
C17_Witness ==
    /\ DispatchProcessed /\ ev.frame.s = 0 /\ seq = 0
    /\ \E i \in 1 .. Len(out) : out[i].e = "call" /\ out[i].q = 0

\* C18 as stated: open is emitted exactly when a READY dispatch frame whose
\* payload carries a session id is processed; sessionId is that id at the
\* emission and the emission carries the payload of the frame.
C18_OpenOnlyWithSessionId ==
    /\ (\E i \in 1 .. Len(out) : out[i].e = "emit" /\ out[i].k = "open")
       <=> (DispatchProcessed /\ ev.frame.t = "READY" /\ ev.frame.d \in SessionIds)
    /\ \A i \in 1 .. Len(out) :
          (out[i].e = "emit" /\ out[i].k = "open")
          => (out[i].d = ev.frame.d /\ sessionId = ev.frame.d)

\* the client's fields, its sockets, timers, pending fetches and registry
ClientState ==
    <<ws, heartbeatTimer, heartbeatAckReceived, reconnectTimer, reconnectAttempts,
      sessionId, seq, intentionalClose, disposed, sockets, hbLive, rcLive, fetches,
      listeners, sets, unsubs>>

SocketIsOpen == ws # NULL /\ sockets[ws].readyState = "OPEN"

\* C19: sendPresenceUpdate(status) sends the one frame {op: 3, d: {status}}
\* on the current socket if that socket is open, and sends nothing otherwise;
\* it raises no error and changes nothing in the client, so nothing is kept
\* for later; no other callback sends a presence frame.
C19_PresenceIsBestEffort ==
    [][/\ ev'.op = "sendPresenceUpdate"
          => /\ UNCHANGED ClientState
             /\ out' = IF SocketIsOpen
                       THEN <<[NoEffect EXCEPT !.e = "send", !.s = ws,
                                               !.n = OP_PRESENCE_UPDATE, !.d = ev'.k]>>
                       ELSE <<>>
       /\ ev'.op # "sendPresenceUpdate" => ~HasN(out', "send", OP_PRESENCE_UPDATE)]_vars

\* an update was dropped while the client waited to reconnect
C19_Witness ==
    /\ ev.op = "sendPresenceUpdate" /\ out = <<>>
    /\ ws # NULL /\ sockets[ws].readyState = "CLOSED" /\ reconnectTimer # NULL

\* the last message was text that is no JSON, or JSON that is no object
\* with a numeric op
Malformed == ev.op = "message" /\ ev.frame.kind \in {"garbage", "value"}

\* C20: a malformed message does nothing: no handler is invoked, nothing
\* is thrown, no socket is closed, and the session, the liveness flag, the
\* timers and everything else in the client stay as they were.
C20_MalformedMessageDropped ==
    [][Malformed' => (out' = <<>> /\ UNCHANGED ClientState)]_vars

\* unparseable text arrived on the current socket while the heartbeat ran
C20_Witness ==
    /\ Malformed /\ ev.frame.kind = "garbage" /\ ev.s = ws
    /\ heartbeatTimer # NULL /\ sessionId # NoSession

\* C21 as stated: the callback that receives a valid Hello starts the
\* heartbeat monitor at the interval of the Hello before it calls the token
\* accessor, so the timer runs while the token fetch is pending.
C21_HeartbeatBeforeToken ==
    (ev.op = "message" /\ Has(out, "getToken"))
    => /\ \E i, j \in 1 .. Len(out) :
             /\ i < j
             /\ out[i].e = "setInterval" /\ out[i].n = ev.frame.n
             /\ out[j].e = "getToken"
       /\ heartbeatTimer # NULL /\ hbLive[heartbeatTimer] = ev.frame.n

\* the clients of the provider that are connected: not disposed, holding a socket
Connected == {e \in EffectIds : ~gws[e].disposed /\ gws[e].ws}

\* C22: at most one client the provider made is connected, and it is
\* activeClient; a client made a socket only if its deferred connect ran, so
\* one whose effect was cleaned up before that never opens a socket.
C22_OneLiveGateway ==
    /\ Cardinality(Connected) <= 1
    /\ \A e \in Connected : activeClient = e
    /\ \A e \in EffectIds : gws[e].opened => gws[e].fired
    /\ \A e \in EffectIds : (gws[e].effect = "cleaned" /\ ~gws[e].fired) => ~gws[e].ws

\* one run was cleaned up before its timer fired, a later one is connected
\* after it displaced a connected one
C22_Witness ==
    \E a, b, c \in EffectIds :
        /\ gws[a].effect = "cleaned" /\ ~gws[a].fired
        /\ gws[b].effect = "mounted" /\ gws[b].disposed /\ gws[b].opened
        /\ c \in Connected

\* the length of b without the slashes it ends in
C23_CoreLen(b) ==
    CHOOSE k \in 0 .. Len(b) :
        /\ \A i \in (k + 1) .. Len(b) : b[i] = "/"
        /\ k = 0 \/ b[k] # "/"

\* what C23 says the transport address of base address b is
C23_Address(b) ==
    LET k == C23_CoreLen(b)
        http == k >= 4 /\ b[1] = "h" /\ b[2] = "t" /\ b[3] = "t" /\ b[4] = "p"
    IN  (IF http THEN <<"w", "s">> ELSE <<>>)
        \o [i \in 1 .. (IF http THEN k - 4 ELSE k) |-> b[IF http THEN i + 4 ELSE i]]
        \o <<"/api/v1/gateway">>

\* C23: every socket is made with the base address without its trailing
\* slashes, with ws in place of a leading http (wss for https), and with
\* /api/v1/gateway appended; all other characters are kept, and so is the
\* scheme of an address that does not begin with http.
C23_TransportAddress ==
    \A s \in SockIds : sockets[s].readyState # "FREE" => sockets[s].url = C23_Address(baseUrl)

\* a socket was made for https://a// with the address wss://a/api/v1/gateway
C23_Witness ==
    /\ baseUrl = <<"h", "t", "t", "p", "s", ":", "/", "/", "a", "/", "/">>
    /\ ws # NULL
    /\ sockets[ws].url = <<"w", "s", "s", ":", "/", "/", "a", "/api/v1/gateway">>

\* the values fetchWithRefresh resolves to
C24_Results ==
    {"data", "Not authenticated.", "Session expired. Please log in again.",
     "Request timed out.", "TOKEN_EXPIRED", "FORBIDDEN"}

C24_Safe(c) ==
    /\ c.fetcherCalls <= 2 /\ c.refreshCalls <= 1
    /\ c.fetcherCalls = 2
       => (/\ c.first = "TOKEN_EXPIRED" /\ c.refreshCalls = 1
           /\ Len(c.tokens) = 2 /\ c.tokens[2] # "null")
    /\ c.refreshCalls = 1 => c.first = "TOKEN_EXPIRED"
    /\ (c.first \notin {"none", "ok", "TOKEN_EXPIRED"} /\ c.pc = "done")
       => (c.refreshCalls = 0 /\ c.result \in {c.first, "Request timed out."})
    /\ (Len(c.tokens) >= 1 /\ c.tokens[1] = "null")
       => (c.fetcherCalls = 0 /\ c.result \in {"Not authenticated.", "Request timed out."})
    /\ c.outer \in {"pending", "resolved"}
    /\ c.outer = "resolved" <=> c.result \in C24_Results

\* C24: a call of fetchWithRefresh calls the fetcher at most twice and
\* refreshSession at most once; the second fetcher call comes only after the
\* first returned TOKEN_EXPIRED and a token was there after the refresh; any
\* other failure is returned without a refresh; without a token the fetcher
\* is not called; the call never rejects and, once made, resolves to a result.
C24_FetchWithRefresh ==
    /\ [](\A i \in CallIds : C24_Safe(calls[i]))
    /\ \A i \in CallIds : (calls[i].pc # "idle") ~> (calls[i].outer = "resolved")

\* a call retried after a refresh and returned the failure of the retry
C24_Witness ==
    \E i \in CallIds :
        /\ calls[i].fetcherCalls = 2 /\ calls[i].refreshCalls = 1
        /\ calls[i].result = "FORBIDDEN"

\* the reconnect timeouts that are pending
PendingReconnects == {i \in TimerIds : rcLive[i]}

\* C25: at most one reconnect timer is pending; scheduling a reconnect and
\* connect() cancel the one pending before, and a cancelled timer is not
\* pending any more, so that it never runs connect().
C25_OneReconnectTimer ==
    /\ Cardinality(PendingReconnects) <= 1
    /\ \A i \in PendingReconnects : reconnectTimer = i
    /\ (ev.op \in {"connect", "reconnect timer"} /\ ~disposed) => PendingReconnects = {}
    /\ \A i \in cancelled : rcLive[i] => Has(out, "setTimeout")
    /\ Has(out, "setTimeout") => PendingReconnects = {reconnectTimer}

\* a close callback cancelled the pending reconnect timer and set a new one
C25_Witness ==
    /\ ev.op = "close"
    /\ cancelled # {} /\ Has(out, "setTimeout") /\ ~Has(out, "new")

\* C26: a reconnect timer is pending only while the current socket has no
\* callbacks attached.
C26_TimerOnlyWhileDetached ==
    PendingReconnects # {} => (ws = NULL \/ sockets[ws].cb = {})

\* C27: reconnectAttempts grows by one in a callback that schedules a
\* reconnect, is 0 after the open callback of a socket, and is left alone by
\* every other callback and call; a default reconnect scheduled at counter n
\* has its delay around min(1000 * 2^n, 30000), and the base of the next one
\* is greater unless the ceiling was reached.
C27_AttemptsCounter ==
    [][/\ reconnectAttempts' =
             IF Has(out', "setTimeout") THEN reconnectAttempts + 1
             ELSE IF ev'.op = "open" /\ "onopen" \in sockets[ev'.s].cb THEN 0
             ELSE reconnectAttempts
       /\ Has(out', "setTimeout") => ev'.op = "close"
       /\ (Has(out', "setTimeout") /\ ev'.n # CLOSE_RATE_LIMITED)
          => /\ \A i \in 1 .. Len(out') :
                   out'[i].e = "setTimeout"
                   => /\ 2 * out'[i].n >= C12_Base(reconnectAttempts)
                      /\ 2 * out'[i].n <= 3 * C12_Base(reconnectAttempts)
             /\ \/ C12_Base(reconnectAttempts') > C12_Base(reconnectAttempts)
                \/ C12_Base(reconnectAttempts) = MAX_BACKOFF_MS]_vars

\* the sixth reconnect in a row was scheduled, at the ceiling, while a
\* heartbeat and a token fetch had taken place on an earlier socket
C27_Witness ==
    /\ ev.op = "close" /\ ev.n = 1006
    /\ reconnectAttempts = 6
    /\ HasN(out, "setTimeout", 30000)
    /\ sessionId # NoSession

\* the last callback was the message callback of the current socket of a
\* client that is not disposed, and the message was an Invalid-Session frame
InvalidSessionProcessed ==
    /\ ev.op = "message" /\ ev.s = ws /\ ~disposed
    /\ ev.frame.kind = "frame" /\ ev.frame.op = OP_INVALID_SESSION

\* session fields that are cleared stay cleared until a dispatch frame is
\* processed: a session id is stored by a READY frame only
ClearedUntilDispatch ==
    /\ (sessionId = NoSession /\ sessionId' # NoSession)
       => ((DispatchProcessed /\ ev.frame.t = "READY")' /\ sessionId' = ev'.frame.d)
    /\ (seq = NoSeq /\ seq' # NoSeq)
       => (DispatchProcessed' /\ seq' = ev'.frame.s)

\* a Hello answered while a session field is cleared is answered with Identify
IdentifyWithoutSession ==
    (ev.op = "token" /\ Answered(out) /\ ~HasSession)
    => (HasN(out, "send", OP_IDENTIFY) /\ ~HasN(out, "send", OP_RESUME))

\* C28: an Invalid-Session frame with payload false clears sessionId and
\* seq, one with payload true leaves both; either way the callback calls
\* close(4000) on the current socket and does nothing else; the fields stay
\* cleared until a dispatch frame stores them again, and a Hello answered
\* meanwhile is answered with Identify.
C28_InvalidSession ==
    /\ [][/\ InvalidSessionProcessed'
             => /\ ev'.frame.d = "false" => (sessionId' = NoSession /\ seq' = NoSeq)
                /\ ev'.frame.d = "true" => UNCHANGED <<sessionId, seq>>
                /\ out' = <<[NoEffect EXCEPT !.e = "close", !.s = ws, !.n = CLOSE_FORCE]>>
                /\ ws' = ws
          /\ ClearedUntilDispatch]_vars
    /\ []IdentifyWithoutSession

\* an Invalid-Session frame with payload false cleared the session that was
\* stored when the Hello of a pending token fetch came
C28_Witness ==
    /\ InvalidSessionProcessed /\ ev.frame.d = "false"
    /\ sessionId = NoSession /\ seq = NoSeq
    /\ HasN(out, "close", CLOSE_FORCE)
    /\ \E i \in 1 .. Len(fetches) : fetches[i].hadSession

C30_SessionSurvivesClose ==
    /\ [][/\ (\/ ev'.op = "close" /\ ev'.n # CLOSE_INVALID_TOKEN
              \/ ev'.op \in {"connect", "reconnect timer", "open", "error"})
             => UNCHANGED <<sessionId, seq>>
          /\ (sessionId' # sessionId \/ seq' # seq)
             => (DispatchProcessed' \/ SessionReset')]_vars
    /\ [](/\ (ev.op = "token" /\ Answered(out) /\ HasSession)
              => HasN(out, "send", OP_RESUME)
           /\ \A i \in 1 .. Len(out) :
                 (out[i].e = "send" /\ out[i].n = OP_RESUME)
                 => (/\ out[i].k = sessionId /\ out[i].k \in SessionIds
                     /\ out[i].q = seq /\ out[i].q \in Seqs))

\* after READY with a session id and a dispatch with s = 1 the current
\* socket closed abnormally, and the session is still stored
C30_Witness ==
    /\ ClosedUnintended /\ ev.n = 1006
    /\ sessionId \in SessionIds /\ seq = 1
    /\ Has(out, "setTimeout")

\* the heartbeat intervals that are running
RunningHeartbeats == {i \in TimerIds : hbLive[i] # 0}

\* C31: at most one heartbeat timer runs, and it is the one the client
\* holds; a callback that starts the monitor leaves exactly the timer it
\* started, at the interval it was given, and a timer it cleared is not
\* running unless the callback started the monitor afterwards.
C31_OneHeartbeatTimer ==
    /\ Cardinality(RunningHeartbeats) <= 1
    /\ \A i \in RunningHeartbeats : heartbeatTimer = i
    /\ Has(out, "setInterval")
       => (/\ Count(out, "setInterval") = 1
           /\ RunningHeartbeats = {heartbeatTimer}
           /\ HasN(out, "setInterval", hbLive[heartbeatTimer]))
    /\ \A i \in stopped : hbLive[i] # 0 => Has(out, "setInterval")

\* a token fetch resolved while a heartbeat timer was running: the monitor
\* was started again and the earlier timer cleared
C31_Witness ==
    /\ ev.op = "token" /\ Has(out, "setInterval")
    /\ stopped # {}
    /\ RunningHeartbeats = {heartbeatTimer}

\* C32 as stated: a heartbeat timer runs only while the current socket has
\* its callbacks attached; none runs while a reconnect timer is pending.
C32_HeartbeatOnlyWhileAttached ==
    RunningHeartbeats # {}
    => (/\ ws # NULL /\ sockets[ws].cb # {}
        /\ PendingReconnects = {})

\* the last callback was the message callback of the current socket of a
\* client that is not disposed, and the message was a Heartbeat-ACK frame
AckProcessed ==
    /\ ev.op = "message" /\ ev.s = ws /\ ~disposed
    /\ ev.frame.kind = "frame" /\ ev.frame.op = OP_HEARTBEAT_ACK

\* C33: a Heartbeat-ACK frame sets the liveness flag and does nothing else;
\* the heartbeat tick that runs next sends one heartbeat on the current
\* socket and closes nothing, and no tick that finds the flag set closes a
\* socket.
C33_AckSetsLivenessOnly ==
    [][/\ AckProcessed'
          => /\ heartbeatAckReceived'
             /\ out' = <<>>
             /\ UNCHANGED <<ws, heartbeatTimer, reconnectTimer, reconnectAttempts,
                            sessionId, seq, intentionalClose, disposed, sockets,
                            hbLive, rcLive, fetches, listeners, sets, unsubs>>
       /\ (AckProcessed /\ ev'.op = "heartbeat tick")
          => /\ out' = <<[NoEffect EXCEPT !.e = "send", !.s = ws, !.n = OP_HEARTBEAT]>>
             /\ ~heartbeatAckReceived'
       /\ (ev'.op = "heartbeat tick" /\ heartbeatAckReceived)
          => (~Has(out', "close") /\ ~heartbeatAckReceived')]_vars

\* an ACK arrived while the monitor ran and a session was established
C33_Witness ==
    /\ AckProcessed /\ heartbeatAckReceived
    /\ RunningHeartbeats = {heartbeatTimer}
    /\ sessionId # NoSession

\* the last message was a Hello frame without a numeric heartbeat_interval
InvalidHello ==
    /\ ev.op = "message" /\ ev.frame.kind = "frame"
    /\ ev.frame.op = OP_HELLO /\ ev.frame.n = NoInterval

\* C34: a Hello frame without a numeric heartbeat_interval does nothing: no
\* heartbeat timer is started, the token accessor is not called, nothing is
\* sent, and the client stays as it was.
C34_InvalidHelloIgnored ==
    [][InvalidHello'
       => (/\ ~Has(out', "setInterval") /\ ~Has(out', "getToken") /\ ~Has(out', "send")
           /\ out' = <<>>
           /\ UNCHANGED <<heartbeatTimer, hbLive, fetches, heartbeatAckReceived>>
           /\ UNCHANGED ClientState)]_vars

\* such a Hello was the first frame on the open current socket
C34_Witness ==
    /\ InvalidHello /\ ev.s = ws /\ ~disposed
    /\ sockets[ws].readyState = "OPEN" /\ sockets[ws].cb = Callbacks
    /\ heartbeatTimer = NULL /\ fetches = <<>> /\ sessionId = NoSession

\* the current socket of a client that is not disposed closed
CurrentSocketClosed == ev.op = "close" /\ ev.s = ws /\ ~disposed

\* C35 as stated: every close of the current socket of a client that is not
\* disposed emits close with the code of that close and invokes every close
\* handler with it, before a reconnect is scheduled; a reconnect is scheduled
\* only in a callback that emitted close before.
C35_CloseEmittedBeforeReconnect ==
    /\ CurrentSocketClosed
       => /\ \E i \in 1 .. Len(out) :
                /\ out[i].e = "emit" /\ out[i].k = "close" /\ out[i].n = ev.n
                /\ \A j \in 1 .. Len(out) : out[j].e = "setTimeout" => i < j
          /\ Called("close") = Subscribers("close")
          /\ \A i \in 1 .. Len(out) :
                (out[i].e = "call" /\ out[i].k = "close")
                => /\ out[i].n = ev.n
                   /\ \A j \in 1 .. Len(out) : out[j].e = "setTimeout" => i < j
    /\ Has(out, "setTimeout")
       => (CurrentSocketClosed /\ \E i \in 1 .. Len(out) : out[i].e = "emit" /\ out[i].k = "close")

\* C36 as stated: the registry has an entry for a key exactly when a
\* handler is subscribed to the key, and no entry holds an empty Set.
C36_RegistryMatchesSubscriptions ==
    \A k \in ListenerKeys :
        /\ listeners[k] # NULL <=> \E h \in Handlers : <<k, h>> \in subscribed
        /\ listeners[k] # NULL => sets[listeners[k]] # <<>>

\* the number of times the last callback emitted under key k, and the number
\* of times it invoked handler h for key k
Emissions(k) == Cardinality({i \in 1 .. Len(out) : out[i].e = "emit" /\ out[i].k = k})
Invocations(k, h) ==
    Cardinality({i \in 1 .. Len(out) : out[i].e = "call" /\ out[i].k = k /\ out[i].h = h})

\* C37 as stated: an emission for key k invokes each handler registered
\* under k exactly once, however often it was registered under k and
\* whatever other keys it is registered under, and invokes no other handler.
C37_OncePerEmission ==
    \A k \in ListenerKeys, h \in Handlers :
        Invocations(k, h) = IF Registered(k, h) THEN Emissions(k) ELSE 0

\* the first call of the token accessor since the last close with code 4004
\* has begun
FirstCallAfterRejection == auth.closedAt > 0 /\ auth.since >= 1

\* C38 as stated: the token accessor call that follows a close with code
\* 4004 calls refreshSession before it reads the access token, and at most
\* one refresh is forced per such close.
C38_RefreshAfterRejection ==
    /\ FirstCallAfterRejection => auth.firstForced
    /\ auth.forced <= 1

\* C38 amended: the first token accessor call after a close with code 4004
\* calls refreshSession before it reads the access token exactly if it begins
\* less than 30 s after the close; a later first call reads the stored token
\* without a refresh; no other call is forced to refresh, so at most one
\* refresh is forced per such close.
C38_RefreshWithinTtl ==
    /\ FirstCallAfterRejection
       => (auth.firstForced <=> auth.firstAt - auth.closedAt < TOKEN_REJECTED_TTL_MS)
    /\ auth.forced <= 1
    /\ auth.forced = 1 => (FirstCallAfterRejection /\ auth.firstForced)

\* the first call after a rejection began 30 s after the close and returned
\* the stored token without a refresh
C38_Witness ==
    /\ FirstCallAfterRejection /\ ~auth.firstForced
    /\ auth.firstAt - auth.closedAt = TOKEN_REJECTED_TTL_MS
    /\ auth.since = 1 /\ auth.pc = "idle" /\ auth.result = "tok"

\* ------------------------------------------------------------------------
\* C39: the typing list of the viewed channel
\* ------------------------------------------------------------------------
\* C39: a user is in the typing list of the viewed channel only between a
\* TYPING_START for that channel from a user other than the current one and
\* the earliest of a TYPING_STOP for that user and channel, a MESSAGE_CREATE
\* by that user in that channel, a channel change, and the first cleanup tick
\* at or after 12 s since that user's latest TYPING_START.
C39_TypingOnlyWhileOpen == \A u \in typing.typingUsers : u \in typing.open

\* C39 between the callbacks of the hook: the same, once the effects of the
\* latest render have run
C39_TypingOnlyWhileOpenAfterEffects == ~typing.reset => C39_TypingOnlyWhileOpen

\* a repeated TYPING_START moved the expiry: the user is listed 12 s after
\* the first TYPING_START, a cleanup tick having run
C39_Restarted ==
    \E u \in typing.typingUsers :
        /\ typing.map[u] = typing.started[u] + TYPING_EXPIRY_MS
        /\ typing.started[u] > TypingClockStep
        /\ typing.now >= TypingClockStep + TYPING_EXPIRY_MS

====
